---- MODULE Spec2Model ----
(***************************************************************************)
(* State-machine model of the fractal renderers of Mandelbrot-Renderer:    *)
(* the Mandelbrot CPU and OpenMP renderers (render.cpp, render_omp.cpp),   *)
(* the Julia renderers (julia.cpp), the Burning Ship and Newton renderer   *)
(* objects (burning_ship.cpp, newton_fractal.cpp) and the programs that    *)
(* drive them (main.cpp, main_unified.cpp, julia_test.cpp).                *)
(*                                                                         *)
(* Arithmetic.  A C++ double is modelled as an exact rational n/d, or one  *)
(* of the IEEE-754 special values NaN, +Inf, -Inf.  The requests the model *)
(* draws keep every coordinate on a grid of halves, for which the          *)
(* viewport and kernel arithmetic of the code is exact in binary64, so the *)
(* rational value is the double the code computes.  The colour formulas    *)
(* use decimal constants (0.16, 0.33, ...) that binary64 only              *)
(* approximates: there the model truncates the exact quotient, which can   *)
(* differ by one from the compiled code where that quotient is an integer. *)
(***************************************************************************)
EXTENDS Integers, Sequences, FiniteSets, TLC

(***************************************************************************)
(* Doubles                                                                 *)
(***************************************************************************)
RECURSIVE GCD(_, _)
GCD(a, b) ==
    IF b = 0 THEN a ELSE GCD(b, a % b)

Abs(i) ==
    IF i < 0 THEN 0 - i ELSE i

Sign(i) ==
    IF i < 0 THEN 0 - 1 ELSE IF i > 0 THEN 1 ELSE 0

\* the finite double n/d, in lowest terms with a positive denominator
Fin(n, d) ==
    LET g == GCD(Abs(n), Abs(d))
        s == IF d < 0 THEN 0 - 1 ELSE 1
    IN  [k |-> "fin", n |-> (s * n) \div g, d |-> (s * d) \div g]

NaN ==
    [k |-> "nan", n |-> 0, d |-> 1]

\* +Inf (s = 1) or -Inf (s = -1)
Inf(s) ==
    [k |-> "inf", n |-> s, d |-> 1]

\* conversion int -> double
D(i) ==
    [k |-> "fin", n |-> i, d |-> 1]

IsNaN(x) == x.k = "nan"
IsInf(x) == x.k = "inf"
IsFin(x) == x.k = "fin"

DNeg(x) ==
    IF IsNaN(x) THEN NaN
    ELSE [k |-> x.k, n |-> 0 - x.n, d |-> x.d]

DAdd(x, y) ==
    IF IsNaN(x) \/ IsNaN(y) THEN NaN
    ELSE IF IsInf(x) /\ IsInf(y) THEN (IF x.n = y.n THEN x ELSE NaN)
    ELSE IF IsInf(x) THEN x
    ELSE IF IsInf(y) THEN y
    ELSE Fin(x.n * y.d + y.n * x.d, x.d * y.d)

DSub(x, y) ==
    DAdd(x, DNeg(y))

DMul(x, y) ==
    IF IsNaN(x) \/ IsNaN(y) THEN NaN
    ELSE IF IsInf(x) \/ IsInf(y)
         THEN (IF x.n = 0 \/ y.n = 0 THEN NaN ELSE Inf(Sign(x.n) * Sign(y.n)))
    ELSE Fin(x.n * y.n, x.d * y.d)

DDiv(x, y) ==
    IF IsNaN(x) \/ IsNaN(y) THEN NaN
    ELSE IF IsInf(x) THEN (IF IsInf(y) THEN NaN
                           ELSE Inf(x.n * (IF y.n < 0 THEN 0 - 1 ELSE 1)))
    ELSE IF IsInf(y) THEN D(0)
    ELSE IF y.n = 0 THEN (IF x.n = 0 THEN NaN ELSE Inf(Sign(x.n)))
    ELSE Fin(x.n * y.d, x.d * y.n)

\* x < y: false as soon as one side is NaN
DLt(x, y) ==
    /\ ~IsNaN(x)
    /\ ~IsNaN(y)
    /\ IF IsInf(x) THEN x.n < 0 /\ ~(IsInf(y) /\ y.n < 0)
       ELSE IF IsInf(y) THEN y.n > 0
       ELSE x.n * y.d < y.n * x.d

DGt(x, y) ==
    DLt(y, x)

DLe(x, y) ==
    /\ ~IsNaN(x)
    /\ ~IsNaN(y)
    /\ ~DLt(y, x)

DAbs(x) ==
    IF IsNaN(x) THEN NaN ELSE [k |-> x.k, n |-> Abs(x.n), d |-> x.d]

\* static_cast<int>(x) of a finite double: truncation toward zero
Trunc(x) ==
    Sign(x.n) * (Abs(x.n) \div x.d)

\* the decimal literal p/q of the source
Lit(p, q) ==
    Fin(p, q)

(***************************************************************************)
(* std::complex<double>                                                    *)
(***************************************************************************)
Cx(re, im) ==
    <<re, im>>

CAdd(z, w) ==
    <<DAdd(z[1], w[1]), DAdd(z[2], w[2])>>

CSub(z, w) ==
    <<DSub(z[1], w[1]), DSub(z[2], w[2])>>

\* operator*: (a+bi)(c+di) = (ac-bd) + (ad+bc)i
CMul(z, w) ==
    <<DSub(DMul(z[1], w[1]), DMul(z[2], w[2])),
      DAdd(DMul(z[1], w[2]), DMul(z[2], w[1]))>>

\* double * complex scales both parts
CScale(a, z) ==
    <<DMul(a, z[1]), DMul(a, z[2])>>

\* complex + double adds to the real part
CAddReal(z, a) ==
    <<DAdd(z[1], a), z[2]>>

\* operator/: (a+bi)/(c+di) = ((ac+bd) + (bc-ad)i) / (c*c+d*d)
CDiv(z, w) ==
    LET den == DAdd(DMul(w[1], w[1]), DMul(w[2], w[2]))
    IN  <<DDiv(DAdd(DMul(z[1], w[1]), DMul(z[2], w[2])), den),
          DDiv(DSub(DMul(z[2], w[1]), DMul(z[1], w[2])), den)>>

\* the square of std::abs(z) = hypot(re, im); hypot is +Inf when a part is
\* infinite, NaN when a part is NaN and none is infinite
CAbsSq(z) ==
    IF IsInf(z[1]) \/ IsInf(z[2]) THEN Inf(1)
    ELSE DAdd(DMul(z[1], z[1]), DMul(z[2], z[2]))

RECURSIVE DivPow10(_, _)
DivPow10(m, e) ==
    IF e = 0 THEN m ELSE DivPow10(m \div 10, e - 1)

RECURSIVE Pow10(_)
Pow10(e) ==
    IF e = 0 THEN 1 ELSE 10 * Pow10(e - 1)

\* |x| < 10^-e for a double x: |n|/d < 10^-e  <=>  |n| <= (d-1) div 10^e
AbsLtPow10(x, e) ==
    /\ IsFin(x)
    /\ Abs(x.n) <= DivPow10(x.d - 1, e)

\* std::abs(z) < 10^-e
CAbsLtPow10(z, e) ==
    IF ~IsFin(z[1]) \/ ~IsFin(z[2]) THEN FALSE
    ELSE IF z[1].n = 0 THEN AbsLtPow10(z[2], e)
    ELSE IF z[2].n = 0 THEN AbsLtPow10(z[1], e)
    ELSE IF ~AbsLtPow10(z[1], e) \/ ~AbsLtPow10(z[2], e) THEN FALSE
    ELSE DLt(CAbsSq(z), Fin(1, Pow10(2 * e)))

(***************************************************************************)
(* Iteration kernels                                                       *)
(***************************************************************************)
\* the loop left as soon as |z| >= 2
RECURSIVE mandelbrot_loop_ge(_, _, _, _)
mandelbrot_loop_ge(z, c, iterations, max_iter) ==
    IF DLt(CAbsSq(z), D(4)) /\ iterations < max_iter
    THEN mandelbrot_loop_ge(CAdd(CMul(z, z), c), c, iterations + 1, max_iter)
    ELSE iterations

\* render.cpp: while (std::abs(z) <= 2.0 && iterations < max_iter)
RECURSIVE mandelbrot_loop(_, _, _, _)
mandelbrot_loop(z, c, iterations, max_iter) ==
    IF DLe(CAbsSq(z), D(4)) /\ iterations < max_iter
    THEN mandelbrot_loop(CAdd(CMul(z, z), c), c, iterations + 1, max_iter)
    ELSE iterations

mandelbrot_iterations(real, imag, max_iter) ==
    mandelbrot_loop(Cx(D(0), D(0)), Cx(real, imag), 0, max_iter)

\* the loop with the cap taken one iteration early
RECURSIVE mandelbrot_omp_loop_short(_, _, _, _, _, _)
mandelbrot_omp_loop_short(zr, zi, real, imag, iter, max_iter) ==
    IF iter < max_iter - 1
    THEN LET zr2 == DMul(zr, zr)
             zi2 == DMul(zi, zi)
         IN  IF DGt(DAdd(zr2, zi2), D(4)) THEN iter
             ELSE mandelbrot_omp_loop_short(DAdd(DSub(zr2, zi2), real),
                                            DAdd(DMul(DMul(D(2), zr), zi), imag),
                                            real, imag, iter + 1, max_iter)
    ELSE iter

\* render_omp.hpp: squared-modulus loop without std::complex
RECURSIVE mandelbrot_omp_loop(_, _, _, _, _, _)
mandelbrot_omp_loop(zr, zi, real, imag, iter, max_iter) ==
    IF iter < max_iter
    THEN LET zr2 == DMul(zr, zr)
             zi2 == DMul(zi, zi)
         IN  IF DGt(DAdd(zr2, zi2), D(4)) THEN iter
             ELSE mandelbrot_omp_loop(DAdd(DSub(zr2, zi2), real),
                                      DAdd(DMul(DMul(D(2), zr), zi), imag),
                                      real, imag, iter + 1, max_iter)
    ELSE iter

\* the same loop entered with z = c instead of z = 0
mandelbrot_iterations_omp_seeded(real, imag, max_iter) ==
    mandelbrot_omp_loop(real, imag, real, imag, 0, max_iter)

mandelbrot_iterations_omp(real, imag, max_iter) ==
    mandelbrot_omp_loop(D(0), D(0), real, imag, 0, max_iter)

\* julia.cpp: for (i = 0; i < max_iter; ++i) { if (|z|^2 > 4) return i; ... }
RECURSIVE julia_loop(_, _, _, _, _, _)
julia_loop(zx, zy, cx, cy, i, max_iter) ==
    IF i < max_iter
    THEN LET zx2 == DMul(zx, zx)
             zy2 == DMul(zy, zy)
         IN  IF DGt(DAdd(zx2, zy2), D(4)) THEN i
             ELSE julia_loop(DAdd(DSub(zx2, zy2), cx),
                             DAdd(DMul(DMul(D(2), zx), zy), cy),
                             cx, cy, i + 1, max_iter)
    ELSE max_iter

julia_iterations(x, y, cx, cy, max_iter) ==
    julia_loop(x, y, cx, cy, 0, max_iter)

\* burning_ship.cpp: while (zx*zx + zy*zy < 4.0 && iterations < max_iterations_)
RECURSIVE burning_ship_loop(_, _, _, _, _, _)
burning_ship_loop(zx, zy, cx, cy, iterations, max_iterations) ==
    IF DLt(DAdd(DMul(zx, zx), DMul(zy, zy)), D(4)) /\ iterations < max_iterations
    THEN LET abs_zx == DAbs(zx)
             abs_zy == DAbs(zy)
         IN  burning_ship_loop(
                 DAdd(DSub(DMul(abs_zx, abs_zx), DMul(abs_zy, abs_zy)), cx),
                 DAdd(DMul(DMul(D(2), abs_zx), abs_zy), cy),
                 cx, cy, iterations + 1, max_iterations)
    ELSE iterations

computeBurningShip(cx, cy, max_iterations) ==
    burning_ship_loop(D(0), D(0), cx, cy, 0, max_iterations)

(***************************************************************************)
(* Newton kernel (newton_fractal.cpp)                                      *)
(***************************************************************************)
\* CONVERGENCE_THRESHOLD = 1e-6 and the underflow guard 1e-10, as exponents
ThresholdExp == 6
UnderflowExp == 10

\* the Newton step without the underflow guard
newtonIteration_unguarded(z) ==
    LET z2 == CMul(z, z)
        z3 == CMul(z2, z)
    IN  CDiv(CAddReal(CScale(D(2), z3), D(1)), CScale(D(3), z2))

\* z_{n+1} = (2z^3 + 1) / (3z^2), or z itself when |z^2| < 1e-10
newtonIteration(z) ==
    LET z2 == CMul(z, z)
        z3 == CMul(z2, z)
    IN  IF CAbsLtPow10(z2, UnderflowExp) THEN z
        ELSE CDiv(CAddReal(CScale(D(2), z3), D(1)), CScale(D(3), z2))

\* the loop counting the step on which convergence is detected
RECURSIVE newton_loop_counted(_, _, _)
newton_loop_counted(z, iterations, max_iterations) ==
    IF iterations < max_iterations
    THEN LET z_new == newtonIteration(z)
         IN  IF CAbsLtPow10(CSub(z_new, z), ThresholdExp)
             THEN <<z_new, iterations + 1>>
             ELSE newton_loop_counted(z_new, iterations + 1, max_iterations)
    ELSE <<z, iterations>>

\* the while loop of NewtonFractalCPU::render for one pixel: <<z, iterations>>
RECURSIVE newton_loop(_, _, _)
newton_loop(z, iterations, max_iterations) ==
    IF iterations < max_iterations
    THEN LET z_new == newtonIteration(z)
         IN  IF CAbsLtPow10(CSub(z_new, z), ThresholdExp)
             THEN <<z_new, iterations>>
             ELSE newton_loop(z_new, iterations + 1, max_iterations)
    ELSE <<z, iterations>>

\* ROOT2_IMAG = 0.866025403784 = (RootImagHi + RootImagLo / 10^6) / 10^6
RootImagHi == 866025
RootImagLo == 403784

\* the literal 0.866025403784 (ROOT2_IMAG) as a double
ROOT_IMAG ==
    DAdd(Fin(RootImagHi, Pow10(6)), Fin(RootImagLo, Pow10(12)))

\* std::abs(z - root) < CONVERGENCE_THRESHOLD for the root (re, s * ROOT_IMAG),
\* s in {-1, 0, 1}.  abs(z - root) >= |Re(z - root)| and >= |Im(z - root)|, so
\* the test is false as soon as one part is 1e-6 away or more; the imaginary
\* part is first compared with the literal rounded to three digits.
NearRoot(z, re, s) ==
    LET a == DSub(z[1], re)
    IN  IF s = 0 THEN CAbsLtPow10(Cx(a, z[2]), ThresholdExp)
        ELSE IF ~IsFin(z[1]) \/ ~IsFin(z[2]) THEN FALSE
        ELSE IF ~AbsLtPow10(a, ThresholdExp) THEN FALSE
        ELSE IF ~(DLt(Fin(866, 1000), DMul(D(s), z[2]))
                  /\ DLt(DMul(D(s), z[2]), Fin(867, 1000))) THEN FALSE
        ELSE CAbsLtPow10(Cx(a, DSub(z[2], DMul(D(s), ROOT_IMAG))), ThresholdExp)

identifyRoot(z) ==
    IF NearRoot(z, D(1), 0) THEN 1
    ELSE IF NearRoot(z, Fin(0 - 1, 2), 1) THEN 2
    ELSE IF NearRoot(z, Fin(0 - 1, 2), 0 - 1) THEN 3
    ELSE 0

\* what render stores for the sample (cx, cy): {root, iterations}
computeNewtonPixel(cx, cy, max_iterations) ==
    LET r == newton_loop(Cx(cx, cy), 0, max_iterations)
    IN  <<identifyRoot(r[1]), r[2]>>

(***************************************************************************)
(* Colour mappers                                                          *)
(***************************************************************************)
\* static_cast<unsigned char>(int)
Byte(i) ==
    i % 256

\* render.cpp iterations_to_color: RGB of an iteration count
iterations_to_color(iterations, max_iter) ==
    IF iterations = max_iter THEN <<0, 0, 0>>
    ELSE LET t == DDiv(D(iterations), D(max_iter))
             c255 == D(255)
         IN  IF DLt(t, Lit(16, 100))
             THEN <<255, Byte(Trunc(DDiv(DMul(c255, t), Lit(16, 100)))), 0>>
             ELSE IF DLt(t, Lit(33, 100))
             THEN <<Byte(Trunc(DDiv(DMul(c255, DSub(Lit(33, 100), t)), Lit(17, 100)))), 255, 0>>
             ELSE IF DLt(t, Lit(5, 10))
             THEN <<0, 255, Byte(Trunc(DDiv(DMul(c255, DSub(t, Lit(33, 100))), Lit(17, 100))))>>
             ELSE IF DLt(t, Lit(66, 100))
             THEN <<0, Byte(Trunc(DDiv(DMul(c255, DSub(Lit(66, 100), t)), Lit(16, 100)))), 255>>
             ELSE IF DLt(t, Lit(83, 100))
             THEN <<Byte(Trunc(DDiv(DMul(c255, DSub(t, Lit(66, 100))), Lit(17, 100)))), 0, 255>>
             ELSE <<255, 0, Byte(Trunc(DDiv(DMul(c255, DSub(D(1), t)), Lit(17, 100))))>>

(***************************************************************************)
(* Colour mappers of the serializers                                       *)
(***************************************************************************)
\* the int remainder a % b of C++ for b > 0: the sign of the dividend
CRem(a, b) ==
    Sign(a) * (Abs(a) % b)

\* static_cast<int>(x * 255) of a finite double
Scale255(x) ==
    Trunc(DMul(x, D(255)))

\* the fixed cap JuliaRenderer::save_ppm normalises with
JuliaColourCap == 1000

\* julia.cpp JuliaRenderer::iterations_to_color, saturation = value = 1.0
julia_iterations_to_color(iterations, max_iterations) ==
    IF iterations = max_iterations THEN <<0, 0, 0>>
    ELSE LET hue == DDiv(DMul(D(360), D(iterations)), D(max_iterations))
             hi == CRem(Trunc(DDiv(hue, D(60))), 6)
             f == DSub(DDiv(hue, D(60)), D(hi))
             value == D(1)
             p == D(0)
             q == DSub(D(1), f)
             t == DSub(D(1), DSub(D(1), f))
             rgb == IF hi = 0 THEN <<value, t, p>>
                    ELSE IF hi = 1 THEN <<q, value, p>>
                    ELSE IF hi = 2 THEN <<p, value, t>>
                    ELSE IF hi = 3 THEN <<p, q, value>>
                    ELSE IF hi = 4 THEN <<t, p, value>>
                    ELSE IF hi = 5 THEN <<value, p, q>>
                    ELSE <<D(0), D(0), D(0)>>
         IN  <<Scale255(rgb[1]), Scale255(rgb[2]), Scale255(rgb[3])>>

\* the colour save_ppm writes for one element of the buffer (julia.cpp:108-111)
julia_save_color(iterations) ==
    julia_iterations_to_color(iterations, JuliaColourCap)

\* std::fmod(x, y) of finite doubles, y > 0: x - y * trunc(x / y)
DFmod(x, y) ==
    DSub(x, DMul(y, D(Trunc(DDiv(x, y)))))

\* burning_ship.cpp BurningShipCPU::hsvToRgb
hsvToRgb(h, s, v) ==
    LET c == DMul(v, s)
        x == DMul(c, DSub(D(1), DAbs(DSub(DFmod(DDiv(h, D(60)), D(2)), D(1)))))
        m == DSub(v, c)
        rgb == IF DLt(h, D(60)) THEN <<c, x, D(0)>>
               ELSE IF DLt(h, D(120)) THEN <<x, c, D(0)>>
               ELSE IF DLt(h, D(180)) THEN <<D(0), c, x>>
               ELSE IF DLt(h, D(240)) THEN <<D(0), x, c>>
               ELSE IF DLt(h, D(300)) THEN <<x, D(0), c>>
               ELSE <<c, D(0), x>>
    IN  <<Byte(Scale255(DAdd(rgb[1], m))), Byte(Scale255(DAdd(rgb[2], m))),
          Byte(Scale255(DAdd(rgb[3], m)))>>

\* burning_ship.cpp BurningShipCPU::iterationsToRGB, max_iterations_ as argument
iterationsToRGB(iterations, max_iterations) ==
    IF iterations = max_iterations THEN <<0, 0, 0>>
    ELSE LET t == DDiv(D(iterations), D(max_iterations))
         IN  IF DLt(t, Lit(16, 100))
             THEN hsvToRgb(DAdd(D(240), DDiv(DMul(t, D(60)), Lit(16, 100))), D(1),
                           DAdd(Lit(1, 2), DDiv(DMul(t, Lit(1, 2)), Lit(16, 100))))
             ELSE IF DLt(t, Lit(42, 100))
             THEN hsvToRgb(DAdd(D(300), DDiv(DMul(DSub(t, Lit(16, 100)), D(60)),
                                             Lit(26, 100))), D(1), D(1))
             ELSE IF DLt(t, Lit(6425, 10000))
             THEN hsvToRgb(DAdd(D(0), DDiv(DMul(DSub(t, Lit(42, 100)), D(30)),
                                           Lit(2225, 10000))), D(1), D(1))
             ELSE IF DLt(t, Lit(8575, 10000))
             THEN hsvToRgb(DAdd(D(30), DDiv(DMul(DSub(t, Lit(6425, 10000)), D(30)),
                                            Lit(215, 1000))), D(1), D(1))
             ELSE hsvToRgb(D(60), DSub(D(1), DDiv(DSub(t, Lit(8575, 10000)),
                                                  Lit(1425, 10000))), D(1))

\* the base colour of a root (newton_fractal.cpp:111-123), <<>> for no root
base_color(root) ==
    IF root = 1 THEN <<255, 50, 50>>
    ELSE IF root = 2 THEN <<50, 255, 50>>
    ELSE IF root = 3 THEN <<50, 50, 255>>
    ELSE <<>>

\* the brightness without its floor
convergence_factor_nofloor(iterations, max_iterations) ==
    DDiv(D(max_iterations - iterations), D(max_iterations))

\* std::max(0.3, (max_iterations_ - iterations) / max_iterations_)
convergence_factor(iterations, max_iterations) ==
    LET f == DDiv(D(max_iterations - iterations), D(max_iterations))
    IN  IF DLt(Lit(3, 10), f) THEN f ELSE Lit(3, 10)

\* newton_fractal.cpp NewtonFractalCPU::rootToRGB, max_iterations_ as argument
rootToRGB(root, iterations, max_iterations) ==
    IF base_color(root) = <<>> THEN <<0, 0, 0>>
    ELSE LET b == base_color(root)
             f == convergence_factor(iterations, max_iterations)
         IN  <<Byte(Trunc(DMul(D(b[1]), f))), Byte(Trunc(DMul(D(b[2]), f))),
               Byte(Trunc(DMul(D(b[3]), f)))>>

(***************************************************************************)
(* Bounds of the model                                                     *)
(***************************************************************************)
MaxW == 2          \* image widths 1..MaxW
MaxH == 10         \* image heights 1..MaxH of the Mandelbrot requests
MaxIter == 2       \* iteration caps 1..MaxIter
MaxThreads == 2    \* OpenMP team sizes 1..MaxThreads
MaxPasses == 2     \* render calls made by one process
MaxDim == 2        \* extents 1..MaxDim of the Burning Ship and Newton objects
MaxObjIter == 1    \* iteration caps 1..MaxObjIter of those objects

Max(a, b) == IF a > b THEN a ELSE b
Min(a, b) == IF a < b THEN a ELSE b

\* the pixel pitch of the requests drawn, 1/2 on both axes
Pitch == Fin(1, 2)

(***************************************************************************)
(* Requests                                                                *)
(***************************************************************************)
\* MandelbrotCPU::RenderParams (render.hpp); the viewport spans W-1 (H-1)
\* pitches, one pitch for a single-pixel axis, from (-2, -1)
RenderParams(w, h, iter) ==
    [width |-> w, height |-> h, max_iter |-> iter,
     x_min |-> D(0 - 2), x_max |-> DAdd(D(0 - 2), DMul(D(Max(w - 1, 1)), Pitch)),
     y_min |-> D(0 - 1), y_max |-> DAdd(D(0 - 1), DMul(D(Max(h - 1, 1)), Pitch)),
     cx |-> D(0), cy |-> D(0)]

\* fractal::JuliaParams (julia.hpp) with c = -1; the viewport spans W (H)
\* pitches from (-1, -1/2)
JuliaParams(w, h, iter) ==
    [width |-> w, height |-> h, max_iter |-> iter,
     x_min |-> D(0 - 1), x_max |-> DAdd(D(0 - 1), DMul(D(Max(w, 1)), Pitch)),
     y_min |-> Fin(0 - 1, 2), y_max |-> DAdd(Fin(0 - 1, 2), DMul(D(Max(h, 1)), Pitch)),
     cx |-> D(0 - 1), cy |-> D(0)]

(***************************************************************************)
(* Viewport mapping and the value of one pixel                             *)
(***************************************************************************)
\* render.cpp:93-94  x_min + (x_max - x_min) * px / (width - 1)
cpu_real(p, px) ==
    DAdd(p.x_min, DDiv(DMul(DSub(p.x_max, p.x_min), D(px)), D(p.width - 1)))

cpu_imag(p, py) ==
    DAdd(p.y_min, DDiv(DMul(DSub(p.y_max, p.y_min), D(py)), D(p.height - 1)))

\* render_omp.cpp:75-76  x_scale = (x_max - x_min) / (width - 1)
x_scale(p) ==
    DDiv(DSub(p.x_max, p.x_min), D(p.width - 1))

y_scale(p) ==
    DDiv(DSub(p.y_max, p.y_min), D(p.height - 1))

\* render_omp.cpp:88,92  y_min + py * y_scale
omp_real(p, px) ==
    DAdd(p.x_min, DMul(D(px), x_scale(p)))

omp_imag(p, py) ==
    DAdd(p.y_min, DMul(D(py), y_scale(p)))

\* julia.cpp:29-30,36-37  dx = (x_max - x_min) / width;  x = x_min + px * dx
julia_dx(p) ==
    DDiv(DSub(p.x_max, p.x_min), D(p.width))

julia_dy(p) ==
    DDiv(DSub(p.y_max, p.y_min), D(p.height))

julia_x(p, px) ==
    DAdd(p.x_min, DMul(D(px), julia_dx(p)))

julia_y(p, py) ==
    DAdd(p.y_min, DMul(D(py), julia_dy(p)))

\* the RGB triple render_mandelbrot_cpu computes for pixel (px, py)
cpu_color(p, px, py) ==
    iterations_to_color(
        mandelbrot_iterations(cpu_real(p, px), cpu_imag(p, py), p.max_iter),
        p.max_iter)

\* the RGB triple render_mandelbrot_omp computes for pixel (px, py)
omp_color(p, px, py) ==
    iterations_to_color(
        mandelbrot_iterations_omp(omp_real(p, px), omp_imag(p, py), p.max_iter),
        p.max_iter)

\* the iteration count both Julia renderers compute for pixel (px, py)
julia_value(p, px, py) ==
    julia_iterations(julia_x(p, px), julia_y(p, py), p.cx, p.cy, p.max_iter)

\* an index that forgets the row: the rows overwrite one another
pixel_index_row0(p, px, py) ==
    px * 3

\* render.cpp:103  pixel_index = (py * width + px) * 3
pixel_index(p, px, py) ==
    (py * p.width + px) * 3

\* julia.cpp:43  image_data[py * width + px]
julia_index(p, px, py) ==
    py * p.width + px

\* constructor arguments and the arguments of render: (width, height,
\* max_iterations), centre 0 and zoom 2, i.e. the square [-1, 1] x [-1, 1]
ObjParams(w, h, iter) ==
    [width |-> w, height |-> h, max_iter |-> iter,
     center_x |-> D(0), center_y |-> D(0), zoom |-> D(2)]

\* burning_ship.cpp:17-21 / newton_fractal.cpp:17-21
scale(p) == DDiv(D(4), p.zoom)
min_x(p) == DSub(p.center_x, DDiv(scale(p), D(2)))
max_x(p) == DAdd(p.center_x, DDiv(scale(p), D(2)))
min_y(p) == DSub(p.center_y, DDiv(scale(p), D(2)))
max_y(p) == DAdd(p.center_y, DDiv(scale(p), D(2)))

\* burning_ship.cpp:27-28 / newton_fractal.cpp:27-28
\*   cx = min_x + (max_x - min_x) * x / (width_ - 1)
obj_cx(p, x) ==
    DAdd(min_x(p), DDiv(DMul(DSub(max_x(p), min_x(p)), D(x)), D(p.width - 1)))

obj_cy(p, y) ==
    DAdd(min_y(p), DDiv(DMul(DSub(max_y(p), min_y(p)), D(y)), D(p.height - 1)))

\* what render stores in fractal_data_[y][x]: the step count
\* (burning_ship.cpp:31) or the pair {root, iterations} (newton_fractal.cpp:47-48)
obj_value(f, p, x, y) ==
    IF f = "ship"
    THEN computeBurningShip(obj_cx(p, x), obj_cy(p, y), p.max_iter)
    ELSE computeNewtonPixel(obj_cx(p, x), obj_cy(p, y), p.max_iter)

\* what the command line or the client can ask for: extents from -1, caps
\* from 0, and one request whose viewport is empty
EmptyViewport(p) ==
    [p EXCEPT !.x_max = p.x_min]

MandelRequests ==
    {RenderParams(w, h, i) : w \in -1 .. MaxW, h \in -1 .. MaxH, i \in 0 .. MaxIter}
        \cup {EmptyViewport(RenderParams(1, 1, 1))}

JuliaRequests ==
    {JuliaParams(w, h, i) : w \in -1 .. MaxW, h \in -1 .. MaxW, i \in 0 .. MaxIter}
        \cup {EmptyViewport(JuliaParams(1, 1, 1))}

ObjRequests ==
    {ObjParams(w, h, i) : w \in -1 .. MaxDim, h \in -1 .. MaxDim, i \in 0 .. MaxObjIter}

Requests(f) ==
    IF f = "mandel" THEN MandelRequests
    ELSE IF f = "julia" THEN JuliaRequests
    ELSE ObjRequests

(***************************************************************************)
(* State                                                                   *)
(***************************************************************************)
VARIABLES
    fam,               \* the renderer family the process uses
    req,               \* the request (RenderParams, JuliaParams, constructor arguments)
    traps,             \* the build: an int modulo by zero raises SIGFPE, or does not
    pc,                \* where the process is
    pass,              \* render passes completed so far
    kind,              \* the renderer variant of the current pass
    nth,               \* team size of the current pass
    icv,               \* OpenMP nthreads-var, as left by omp_set_num_threads
    buf,               \* the image buffer: index -> value
    writes,            \* per index, the number of stores to it in this pass
    oob,               \* a write of this pass fell outside the buffer
    py, px,            \* loop counters of the sequential renderers
    wk,                \* per OpenMP thread: its state, loop iteration, column, register
    next,              \* next loop iteration the dynamic schedule hands out
    progress_counter,  \* render_omp.cpp:79
    lock,              \* holder of the omp critical section, 0 when free
    file,              \* what the serializer was given and wrote in this pass
    prev,              \* buffer, variant and team size of the pass before
    call               \* the last direct call of a kernel, a colour mapper or the batch entry

vars ==
    <<fam, req, traps, pc, pass, kind, nth, icv, buf, writes, oob, py, px, wk,
      next, progress_counter, lock, file, prev, call>>

NoFile ==
    [open |-> FALSE, started |-> FALSE, complete |-> FALSE, via |-> "none",
     given |-> <<>>, emitted |-> <<>>]
NoPrev == [buf |-> <<>>, kind |-> "none", nth |-> 0]
NoCall == [fn |-> "none"]
Idle == [st |-> "idle", it |-> 0, px |-> 0, tmp |-> 0]

\* std::vector<T>(n): n value-initialized elements, indices 0..n-1
Vector(n, v) ==
    [i \in 0 .. (n - 1) |-> v]

\* image_data[i] = v; a store outside the allocation is recorded in oob
StoreAt(b, i, v) ==
    IF i \in DOMAIN b THEN [b EXCEPT ![i] = v] ELSE b

CountAt(l, i) ==
    IF i \in DOMAIN l THEN [l EXCEPT ![i] = @ + 1] ELSE l

\* elements of the buffer per pixel: R, G, B bytes (render.cpp:86), one int
\* (julia.cpp:26), one cell of fractal_data_
Channels ==
    IF fam = "mandel" THEN 3 ELSE 1

\* every element of every row of the image has been written in this pass
FullyPopulated ==
    \A y \in 0 .. (req.height - 1) : \A x \in 0 .. (req.width - 1) :
        \A c \in 0 .. (Channels - 1) :
            LET i == (y * req.width + x) * Channels + c
            IN  i \in DOMAIN writes /\ writes[i] >= 1

\* the colour the text serializers write for the buffer element v:
\* julia.cpp:108-110, burning_ship.cpp:141, newton_fractal.cpp:152-153
pixel_color(f, p, v) ==
    IF f = "julia" THEN julia_save_color(v)
    ELSE IF f = "ship" THEN iterationsToRGB(v, p.max_iter)
    ELSE rootToRGB(v[1], v[2], p.max_iter)

\* the loops visiting the columns first
RECURSIVE save_loop_columns(_, _, _, _, _, _)
save_loop_columns(f, p, data, y, x, acc) ==
    IF x < p.width
    THEN IF y < p.height
         THEN save_loop_columns(f, p, data, y + 1, x,
                                Append(acc, pixel_color(f, p, data[y * p.width + x])))
         ELSE save_loop_columns(f, p, data, 0, x + 1, acc)
    ELSE acc

\* for (py < height) for (px < width) file << colour of data[py * width + px]:
\* the pixels in the order they are written (julia.cpp:106-114,
\* burning_ship.cpp:139-147, newton_fractal.cpp:150-159)
RECURSIVE save_loop(_, _, _, _, _, _)
save_loop(f, p, data, y, x, acc) ==
    IF y < p.height
    THEN IF x < p.width
         THEN save_loop(f, p, data, y, x + 1,
                        Append(acc, pixel_color(f, p, data[y * p.width + x])))
         ELSE save_loop(f, p, data, y + 1, 0, acc)
    ELSE acc

\* render.cpp:141  file.write(image_data.data(), image_data.size()): the bytes
\* of the buffer in index order, here three by three
write_buffer(data) ==
    [k \in 1 .. (Cardinality(DOMAIN data) \div 3) |->
        <<data[3 * (k - 1)], data[3 * (k - 1) + 1], data[3 * (k - 1) + 2]>>]

\* the pixels an open stream receives from the serializer of family f, and
\* the pixels that reach the file: none when the stream did not open
\* (render.cpp:129-132, julia.cpp:95-98; the object serializers write to the
\* failed stream, which discards the text)
serialize(f, p, data) ==
    IF f = "mandel" THEN write_buffer(data) ELSE save_loop(f, p, data, 0, 0, <<>>)

emitted_pixels(io_ok) ==
    IF ~io_ok THEN <<>> ELSE serialize(fam, req, buf)

\* the serializer runs on the current buffer: whether the stream opened,
\* whether every element had been written by then, who called it, the
\* buffer it was handed and the pixels it wrote
Serialized(io_ok, caller) ==
    [open |-> io_ok, started |-> TRUE, complete |-> FullyPopulated,
     via |-> caller, given |-> buf, emitted |-> emitted_pixels(io_ok)]

(***************************************************************************)
(* Mandelbrot programs (main.cpp, main_unified.cpp)                        *)
(***************************************************************************)
\* main.cpp:97-109 parameter validation
ValidParams(p) ==
    /\ ~(p.width <= 0 \/ p.height <= 0)
    /\ ~(p.max_iter <= 0)
    /\ ~(DLe(p.x_max, p.x_min) \/ DLe(p.y_max, p.y_min))

Validate ==
    /\ pc = "main"
    /\ fam = "mandel"
    /\ pc' = IF ValidParams(req) THEN "ready" ELSE "rejected"
    /\ UNCHANGED <<call, fam, req, traps, pass, kind, nth, icv, buf, writes, oob, py, px,
                   wk, next, progress_counter, lock, file, prev>>

\* render.cpp:86-87 allocation, and entry into the pixel loops
CallRenderCpu ==
    /\ pc = "ready"
    /\ fam = "mandel"
    /\ pass < MaxPasses
    /\ kind' = "cpu"
    /\ nth' = 1
    /\ buf' = Vector(req.width * req.height * 3, 0)
    /\ writes' = Vector(req.width * req.height * 3, 0)
    /\ oob' = FALSE
    /\ py' = 0
    /\ px' = 0
    /\ file' = NoFile
    /\ pc' = "render"
    /\ UNCHANGED <<call, fam, req, traps, pass, icv, wk, next, progress_counter, lock, prev>>

\* the three stores of one pixel (render.cpp:103-106, render_omp.cpp:101-104)
StoreRGB(b, i, c) ==
    StoreAt(StoreAt(StoreAt(b, i, c[1]), i + 1, c[2]), i + 2, c[3])

CountRGB(l, i) ==
    CountAt(CountAt(CountAt(l, i), i + 1), i + 2)

OutsideRGB(b, i) ==
    \E j \in {i, i + 1, i + 2} : j \notin DOMAIN b

\* render.cpp:91-107 one iteration of the inner loop
CpuPixel ==
    /\ pc = "render"
    /\ fam = "mandel"
    /\ kind = "cpu"
    /\ py < req.height
    /\ px < req.width
    /\ LET i == pixel_index(req, px, py)
       IN  /\ buf' = StoreRGB(buf, i, cpu_color(req, px, py))
           /\ writes' = CountRGB(writes, i)
           /\ oob' = (oob \/ OutsideRGB(buf, i))
    /\ px' = px + 1
    /\ UNCHANGED <<call, fam, req, traps, pc, pass, kind, nth, icv, py, wk, next,
                   progress_counter, lock, file, prev>>

\* render.cpp:110  py % (params.height / 10): undefined when height < 10
progress_divisor(p) ==
    p.height \div 10

\* render.cpp:109-113 progress report at the end of a row, then ++py
CpuRowEnd ==
    /\ pc = "render"
    /\ fam = "mandel"
    /\ kind = "cpu"
    /\ py < req.height
    /\ px >= req.width
    /\ IF progress_divisor(req) = 0 /\ traps
       THEN /\ pc' = "crashed"
            /\ UNCHANGED <<py, px>>
       ELSE /\ py' = py + 1
            /\ px' = 0
            /\ pc' = pc
    /\ UNCHANGED <<call, fam, req, traps, pass, kind, nth, icv, buf, writes, oob, wk, next,
                   progress_counter, lock, file, prev>>

\* render.cpp:114-122 the outer loop ends and the buffer is returned
CpuReturn ==
    /\ pc = "render"
    /\ fam = "mandel"
    /\ kind = "cpu"
    /\ py >= req.height
    /\ pc' = "rendered"
    /\ UNCHANGED <<call, fam, req, traps, pass, kind, nth, icv, buf, writes, oob, py, px,
                   wk, next, progress_counter, lock, file, prev>>

\* omp_get_max_threads() capped at 16 (render_omp.cpp:23-28)
get_optimal_thread_count ==
    Min(icv, 16)

\* render_omp.cpp:30-46: the team size configure_openmp sets
configure_openmp(num_threads) ==
    IF num_threads <= 0 THEN get_optimal_thread_count ELSE num_threads

\* render_omp.cpp:59-83 configuration, allocation, entry into the parallel loop
CallRenderOmp(num_threads) ==
    /\ pc = "ready"
    /\ fam = "mandel"
    /\ pass < MaxPasses
    /\ kind' = "omp"
    /\ icv' = configure_openmp(num_threads)
    /\ nth' = icv'
    /\ buf' = Vector(req.width * req.height * 3, 0)
    /\ writes' = Vector(req.width * req.height * 3, 0)
    /\ oob' = FALSE
    /\ progress_counter' = 0
    /\ next' = 0
    /\ lock' = 0
    /\ wk' = [t \in 1 .. nth' |-> Idle]
    /\ file' = NoFile
    /\ pc' = "render"
    /\ UNCHANGED <<call, fam, req, traps, pass, py, px, prev>>

\* a schedule that hands the same iteration out again
NextIteration_stuck(n) ==
    n

\* the dynamic schedule's shared iteration counter after handing out
\* iteration n (render_omp.cpp:85, julia.cpp:168)
NextIteration(n) ==
    n + 1

\* schedule(dynamic, 1): an idle thread takes the next row
OmpGrab(t) ==
    /\ pc = "render"
    /\ fam = "mandel"
    /\ kind = "omp"
    /\ wk[t].st = "idle"
    /\ next < req.height
    /\ wk' = [wk EXCEPT ![t] = [st |-> "row", it |-> next, px |-> 0, tmp |-> 0]]
    /\ next' = NextIteration(next)
    /\ UNCHANGED <<call, fam, req, traps, pc, pass, kind, nth, icv, buf, writes, oob, py, px,
                   progress_counter, lock, file, prev>>

\* an inner loop that reads the row from the team's shared counter
OmpPixel_shared(t) ==
    /\ pc = "render"
    /\ fam = "mandel"
    /\ kind = "omp"
    /\ wk[t].st = "row"
    /\ wk[t].px < req.width
    /\ LET i == pixel_index(req, wk[t].px, wk[t].it)
       IN  /\ buf' = StoreRGB(buf, i, omp_color(req, wk[t].px, Min(next, req.height - 1)))
           /\ writes' = CountRGB(writes, i)
           /\ oob' = (oob \/ OutsideRGB(buf, i))
    /\ wk' = [wk EXCEPT ![t].px = @ + 1]
    /\ UNCHANGED <<call, fam, req, traps, pc, pass, kind, nth, icv, py, px, next,
                   progress_counter, lock, file, prev>>

\* render_omp.cpp:90-104 one iteration of the inner loop, by thread t
OmpPixel(t) ==
    /\ pc = "render"
    /\ fam = "mandel"
    /\ kind = "omp"
    /\ wk[t].st = "row"
    /\ wk[t].px < req.width
    /\ LET i == pixel_index(req, wk[t].px, wk[t].it)
       IN  /\ buf' = StoreRGB(buf, i, omp_color(req, wk[t].px, wk[t].it))
           /\ writes' = CountRGB(writes, i)
           /\ oob' = (oob \/ OutsideRGB(buf, i))
    /\ wk' = [wk EXCEPT ![t].px = @ + 1]
    /\ UNCHANGED <<call, fam, req, traps, pc, pass, kind, nth, icv, py, px, next,
                   progress_counter, lock, file, prev>>

\* a section that any worker may enter at any time
CriticalFree_open ==
    TRUE

\* #pragma omp critical: entry needs the section to be free
CriticalFree ==
    lock = 0

\* render_omp.cpp:108-110 enter the critical section and load progress_counter
OmpCriticalEnter(t) ==
    /\ pc = "render"
    /\ fam = "mandel"
    /\ kind = "omp"
    /\ wk[t].st = "row"
    /\ wk[t].px >= req.width
    /\ CriticalFree
    /\ lock' = t
    /\ wk' = [wk EXCEPT ![t].st = "crit", ![t].tmp = progress_counter]
    /\ UNCHANGED <<call, fam, req, traps, pc, pass, kind, nth, icv, buf, writes, oob, py, px,
                   next, progress_counter, file, prev>>

\* render_omp.cpp:80  progress_step = params.height / 10
progress_step(p) ==
    p.height \div 10

\* render_omp.cpp:110-116 store the incremented counter, evaluate
\* progress_counter % progress_step (undefined when progress_step is 0), leave
OmpCriticalLeave(t) ==
    /\ pc = "render"
    /\ fam = "mandel"
    /\ kind = "omp"
    /\ wk[t].st = "crit"
    /\ progress_counter' = wk[t].tmp + 1
    /\ IF progress_step(req) = 0 /\ traps
       THEN /\ pc' = "crashed"
            /\ UNCHANGED <<lock, wk>>
       ELSE /\ lock' = 0
            /\ wk' = [wk EXCEPT ![t] = Idle]
            /\ pc' = pc
    /\ UNCHANGED <<call, fam, req, traps, pass, kind, nth, icv, buf, writes, oob, py, px,
                   next, file, prev>>

\* iterations of the parallel loop: rows (render_omp.cpp:86), or the
\* collapsed (py, px) pairs (julia.cpp:168-170)
LoopCount ==
    IF fam = "mandel" THEN req.height ELSE Max(req.height, 0) * Max(req.width, 0)

\* a barrier that lets the master through once the iterations are handed out
JoinReady_early ==
    next >= LoopCount

\* the implicit barrier that ends "#pragma omp parallel for": every iteration
\* handed out and every thread of the team finished
JoinReady ==
    /\ next >= LoopCount
    /\ \A t \in DOMAIN wk : wk[t].st = "idle"

OmpJoin ==
    /\ pc = "render"
    /\ kind = "omp"
    /\ JoinReady
    /\ pc' = "rendered"
    /\ UNCHANGED <<call, fam, req, traps, pass, kind, nth, icv, buf, writes, oob, py, px,
                   wk, next, progress_counter, lock, file, prev>>

\* main.cpp:126 / main_unified.cpp:272  save_ppm(output, image_data, w, h)
\* render.cpp:125-144: a failed open writes nothing and returns
SavePpm(io_ok) ==
    /\ pc = "rendered"
    /\ fam = "mandel"
    /\ file' = Serialized(io_ok, "main")
    /\ prev' = [buf |-> buf, kind |-> kind, nth |-> nth]
    /\ pass' = pass + 1
    /\ pc' = "ready"
    /\ UNCHANGED <<call, fam, req, traps, kind, nth, icv, buf, writes, oob, py, px, wk,
                   next, progress_counter, lock>>

(***************************************************************************)
(* Julia renderers (julia.cpp, driven by julia_test.cpp)                   *)
(***************************************************************************)
\* julia.cpp:26 / 158  std::vector<int> image_data(width * height): a negative
\* product converts to a size beyond max_size() and the constructor throws
\* std::length_error, which nothing catches
AllocFails(n) ==
    n < 0

\* JuliaRenderer::render, julia.cpp:23-30: allocation and entry into the loops;
\* julia_test.cpp passes the request on unvalidated
CallJulia ==
    /\ pc = "ready"
    /\ fam = "julia"
    /\ pass < MaxPasses
    /\ kind' = "cpu"
    /\ nth' = 1
    /\ oob' = FALSE
    /\ py' = 0
    /\ px' = 0
    /\ file' = NoFile
    /\ IF AllocFails(req.width * req.height)
       THEN /\ pc' = "aborted"
            /\ UNCHANGED <<buf, writes>>
       ELSE /\ pc' = "render"
            /\ buf' = Vector(req.width * req.height, 0)
            /\ writes' = Vector(req.width * req.height, 0)
    /\ UNCHANGED <<call, fam, req, traps, pass, icv, wk, next, progress_counter, lock, prev>>

\* julia.cpp:33-45 one iteration of the inner loop, then ++px and, at the end
\* of the row, ++py
JuliaPixel ==
    /\ pc = "render"
    /\ fam = "julia"
    /\ kind = "cpu"
    /\ py < req.height
    /\ px < req.width
    /\ LET i == julia_index(req, px, py)
       IN  /\ buf' = StoreAt(buf, i, julia_value(req, px, py))
           /\ writes' = CountAt(writes, i)
           /\ oob' = (oob \/ i \notin DOMAIN buf)
    /\ IF px + 1 < req.width
       THEN /\ px' = px + 1
            /\ py' = py
       ELSE /\ px' = 0
            /\ py' = py + 1
    /\ UNCHANGED <<call, fam, req, traps, pc, pass, kind, nth, icv, wk, next,
                   progress_counter, lock, file, prev>>

\* the loops of julia.cpp:33-34 end: no row left, or rows of no pixel
JuliaLoopEnd ==
    /\ pc = "render"
    /\ fam = "julia"
    /\ kind = "cpu"
    /\ (py >= req.height \/ req.width <= 0)
    /\ pc' = "rendered"
    /\ UNCHANGED <<call, fam, req, traps, pass, kind, nth, icv, buf, writes, oob, py, px,
                   wk, next, progress_counter, lock, file, prev>>

\* JuliaRendererOMP::render, julia.cpp:155-168, with thread_count as last set
\* by set_thread_count (julia.cpp:208-210)
CallJuliaOmp(thread_count) ==
    /\ pc = "ready"
    /\ fam = "julia"
    /\ pass < MaxPasses
    /\ kind' = "omp"
    /\ icv' = thread_count
    /\ nth' = thread_count
    /\ oob' = FALSE
    /\ next' = 0
    /\ wk' = [t \in 1 .. thread_count |-> Idle]
    /\ file' = NoFile
    /\ IF AllocFails(req.width * req.height)
       THEN /\ pc' = "aborted"
            /\ UNCHANGED <<buf, writes>>
       ELSE /\ pc' = "render"
            /\ buf' = Vector(req.width * req.height, 0)
            /\ writes' = Vector(req.width * req.height, 0)
    /\ UNCHANGED <<call, fam, req, traps, pass, py, px, progress_counter, lock, prev>>

\* collapse(2) schedule(dynamic): an idle thread takes the next (py, px) pair
JuliaOmpGrab(t) ==
    /\ pc = "render"
    /\ fam = "julia"
    /\ kind = "omp"
    /\ wk[t].st = "idle"
    /\ next < LoopCount
    /\ wk' = [wk EXCEPT ![t] = [st |-> "pixel", it |-> next, px |-> 0, tmp |-> 0]]
    /\ next' = NextIteration(next)
    /\ UNCHANGED <<call, fam, req, traps, pc, pass, kind, nth, icv, buf, writes, oob, py, px,
                   progress_counter, lock, file, prev>>

\* julia.cpp:171-180 the body of the collapsed loop for pair number wk[t].it
JuliaOmpPixel(t) ==
    /\ pc = "render"
    /\ fam = "julia"
    /\ kind = "omp"
    /\ wk[t].st = "pixel"
    /\ LET y == wk[t].it \div req.width
           x == wk[t].it % req.width
           i == julia_index(req, x, y)
       IN  /\ buf' = StoreAt(buf, i, julia_value(req, x, y))
           /\ writes' = CountAt(writes, i)
           /\ oob' = (oob \/ i \notin DOMAIN buf)
    /\ wk' = [wk EXCEPT ![t] = Idle]
    /\ UNCHANGED <<call, fam, req, traps, pc, pass, kind, nth, icv, py, px, next,
                   progress_counter, lock, file, prev>>

\* julia.cpp:51 / 191  save_ppm(image_data, ...) inside render, after the loops
\* julia.cpp:92-98: a failed open writes nothing and returns
JuliaSave(io_ok) ==
    /\ pc = "rendered"
    /\ fam = "julia"
    /\ file' = Serialized(io_ok, "render")
    /\ prev' = [buf |-> buf, kind |-> kind, nth |-> nth]
    /\ pass' = pass + 1
    /\ pc' = "ready"
    /\ UNCHANGED <<call, fam, req, traps, kind, nth, icv, buf, writes, oob, py, px, wk,
                   next, progress_counter, lock>>

(***************************************************************************)
(* BurningShipCPU and NewtonFractalCPU objects                             *)
(***************************************************************************)
Objects == {"ship", "newton"}

\* the value the constructor fills fractal_data_ with
\* (burning_ship.cpp:10: 0, newton_fractal.cpp:10: {-1, 0})
ctor_fill(f) ==
    IF f = "ship" THEN 0 ELSE <<0 - 1, 0>>

\* the constructors, burning_ship.cpp:8-11 / newton_fractal.cpp:8-11:
\* resize(height_, vector(width_, fill)) throws std::length_error for a
\* negative extent; fractal_data_[y][x] is kept here at index y * width + x
Construct ==
    /\ pc = "main"
    /\ fam \in Objects
    /\ IF AllocFails(req.width) \/ AllocFails(req.height)
       THEN /\ pc' = "aborted"
            /\ UNCHANGED <<buf, writes>>
       ELSE /\ pc' = "ready"
            /\ buf' = Vector(req.width * req.height, ctor_fill(fam))
            /\ writes' = Vector(req.width * req.height, 0)
    /\ UNCHANGED <<call, fam, req, traps, pass, kind, nth, icv, oob, py, px, wk, next,
                   progress_counter, lock, file, prev>>

\* render(center_x, center_y, zoom), called by the client or by renderToFile
\* (burning_ship.cpp:47, newton_fractal.cpp:64); the member buffer is kept
CallRender(to_file) ==
    /\ pc = "ready"
    /\ fam \in Objects
    /\ pass < MaxPasses
    /\ kind' = IF to_file THEN "renderToFile" ELSE "render"
    /\ nth' = 1
    /\ writes' = Vector(req.width * req.height, 0)
    /\ oob' = FALSE
    /\ py' = 0
    /\ px' = 0
    /\ file' = NoFile
    /\ pc' = "render"
    /\ UNCHANGED <<call, fam, req, traps, pass, icv, buf, wk, next, progress_counter,
                   lock, prev>>

\* an inner loop that computes the cell and does not store it
ObjPixel_skip ==
    /\ pc = "render"
    /\ fam \in Objects
    /\ py < req.height
    /\ px < req.width
    /\ IF px + 1 < req.width
       THEN /\ px' = px + 1
            /\ py' = py
       ELSE /\ px' = 0
            /\ py' = py + 1
    /\ UNCHANGED <<call, fam, req, traps, pc, pass, kind, nth, icv, wk, next,
                   progress_counter, lock, file, prev, buf, writes, oob>>

\* burning_ship.cpp:24-32 / newton_fractal.cpp:24-49 one iteration of the
\* inner loop, then ++x and, at the end of the row, ++y
ObjPixel ==
    /\ pc = "render"
    /\ fam \in Objects
    /\ py < req.height
    /\ px < req.width
    /\ LET i == py * req.width + px
       IN  /\ buf' = StoreAt(buf, i, obj_value(fam, req, px, py))
           /\ writes' = CountAt(writes, i)
           /\ oob' = (oob \/ i \notin DOMAIN buf)
    /\ IF px + 1 < req.width
       THEN /\ px' = px + 1
            /\ py' = py
       ELSE /\ px' = 0
            /\ py' = py + 1
    /\ UNCHANGED <<call, fam, req, traps, pc, pass, kind, nth, icv, wk, next,
                   progress_counter, lock, file, prev>>

\* the loops end and render reports its timing (burning_ship.cpp:35-42,
\* newton_fractal.cpp:52-59 of render)
ObjLoopEnd ==
    /\ pc = "render"
    /\ fam \in Objects
    /\ (py >= req.height \/ req.width <= 0)
    /\ pc' = "rendered"
    /\ UNCHANGED <<call, fam, req, traps, pass, kind, nth, icv, buf, writes, oob, py, px,
                   wk, next, progress_counter, lock, file, prev>>

\* render, called by the client, returns
ObjReturn ==
    /\ pc = "rendered"
    /\ fam \in Objects
    /\ kind = "render"
    /\ prev' = [buf |-> buf, kind |-> kind, nth |-> nth]
    /\ pass' = pass + 1
    /\ pc' = "ready"
    /\ UNCHANGED <<call, fam, req, traps, kind, nth, icv, buf, writes, oob, py, px, wk,
                   next, progress_counter, lock, file>>

\* renderToFile's saveAsPPM(filename), burning_ship.cpp:48 / newton_fractal.cpp:65;
\* saveAsPPM never tests the stream (burning_ship.cpp:135-148)
ObjSave(io_ok) ==
    /\ pc = "rendered"
    /\ fam \in Objects
    /\ kind = "renderToFile"
    /\ file' = Serialized(io_ok, "renderToFile")
    /\ prev' = [buf |-> buf, kind |-> kind, nth |-> nth]
    /\ pass' = pass + 1
    /\ pc' = "ready"
    /\ UNCHANGED <<call, fam, req, traps, kind, nth, icv, buf, writes, oob, py, px, wk,
                   next, progress_counter, lock>>

\* saveAsPPM is public: the client calls it on the object as it stands,
\* before any render as well
SaveAsPPM(io_ok) ==
    /\ pc = "ready"
    /\ fam \in Objects
    /\ file' = Serialized(io_ok, "client")
    /\ UNCHANGED <<call, fam, req, traps, pc, pass, kind, nth, icv, buf, writes, oob, py,
                   px, wk, next, progress_counter, lock, prev>>

(***************************************************************************)
(* The process                                                             *)
(***************************************************************************)
Families == {"mandel", "julia", "ship", "newton"}

\* omp_get_max_threads() of a fresh process
HardwareThreads ==
    MaxThreads

\* the builds that differ for a request: only one that reaches the int
\* modulo by zero of the progress report tells a trapping build from another
Builds(f, p) ==
    IF f = "mandel" /\ ValidParams(p) /\ progress_step(p) = 0 THEN BOOLEAN ELSE {TRUE}

Init ==
    /\ fam \in Families
    /\ req \in Requests(fam)
    /\ traps \in Builds(fam, req)
    /\ pc = (IF fam = "julia" THEN "ready" ELSE "main")
    /\ pass = 0
    /\ kind = "none"
    /\ nth = 1
    /\ icv = HardwareThreads
    /\ buf = <<>>
    /\ writes = <<>>
    /\ oob = FALSE
    /\ py = 0
    /\ px = 0
    /\ wk = <<>>
    /\ next = 0
    /\ progress_counter = 0
    /\ lock = 0
    /\ file = NoFile
    /\ prev = NoPrev
    /\ call = NoCall

Next ==
    \/ Validate
    \/ CallRenderCpu
    \/ CpuPixel
    \/ CpuRowEnd
    \/ CpuReturn
    \/ \E n \in 0 .. MaxThreads : CallRenderOmp(n)
    \/ \E t \in DOMAIN wk : OmpGrab(t)
    \/ \E t \in DOMAIN wk : OmpPixel(t)
    \/ \E t \in DOMAIN wk : OmpCriticalEnter(t)
    \/ \E t \in DOMAIN wk : OmpCriticalLeave(t)
    \/ OmpJoin
    \/ \E io_ok \in BOOLEAN : SavePpm(io_ok)
    \/ CallJulia
    \/ JuliaPixel
    \/ JuliaLoopEnd
    \/ \E n \in 1 .. MaxThreads : CallJuliaOmp(n)
    \/ \E t \in DOMAIN wk : JuliaOmpGrab(t)
    \/ \E t \in DOMAIN wk : JuliaOmpPixel(t)
    \/ \E io_ok \in BOOLEAN : JuliaSave(io_ok)
    \/ Construct
    \/ \E to_file \in BOOLEAN : CallRender(to_file)
    \/ ObjPixel
    \/ ObjLoopEnd
    \/ ObjReturn
    \/ \E io_ok \in BOOLEAN : ObjSave(io_ok)
    \/ \E io_ok \in BOOLEAN : SaveAsPPM(io_ok)

Spec ==
    Init /\ [][Next]_vars

(***************************************************************************)
(* Batch entry point (wasm/src/fractals_wasm.cpp)                          *)
(***************************************************************************)
\* for (i = 0; i < maxIter; i++) { if (abs(z) > 2.0) return i; z = z * z + c; }
RECURSIVE wasm_escape_loop(_, _, _, _)
wasm_escape_loop(z, c, i, maxIter) ==
    IF i < maxIter
    THEN IF DGt(CAbsSq(z), D(4)) THEN i
         ELSE wasm_escape_loop(CAdd(CMul(z, z), c), c, i + 1, maxIter)
    ELSE maxIter

mandelbrotIterations(real, imag, maxIter) ==
    wasm_escape_loop(Cx(D(0), D(0)), Cx(real, imag), 0, maxIter)

juliaIterations(real, imag, cReal, cImag, maxIter) ==
    wasm_escape_loop(Cx(real, imag), Cx(cReal, cImag), 0, maxIter)

\* the same loop with z = Complex(zx*zx - zy*zy, 2*zx*zy) + c, zx = |Re z|, zy = |Im z|
RECURSIVE wasm_ship_loop(_, _, _, _)
wasm_ship_loop(z, c, i, maxIter) ==
    IF i < maxIter
    THEN IF DGt(CAbsSq(z), D(4)) THEN i
         ELSE LET zx == DAbs(z[1])
                  zy == DAbs(z[2])
              IN  wasm_ship_loop(
                      CAdd(Cx(DSub(DMul(zx, zx), DMul(zy, zy)),
                              DMul(DMul(D(2), zx), zy)), c),
                      c, i + 1, maxIter)
    ELSE maxIter

burningShipIterations(real, imag, maxIter) ==
    wasm_ship_loop(Cx(D(0), D(0)), Cx(real, imag), 0, maxIter)

\* the value newtonIterations returns at loop index i for the root reached:
\* return i + 1000, return i + 2000, return i + 3000
newton_code(root, i) ==
    IF root = 1 THEN i + 1000
    ELSE IF root = 2 THEN i + 2000
    ELSE i + 3000

\* newtonIterations: the root reached, coded i + 1000 * root, or 0; the roots
\* (-1 +- i sqrt(3)) / 2 are taken to the twelve digits of ROOT_IMAG
RECURSIVE wasm_newton_loop(_, _, _)
wasm_newton_loop(z, i, maxIter) ==
    IF i < maxIter
    THEN LET z2 == CMul(z, z)
             z3 == CMul(z2, z)
             numerator == CSub(z3, Cx(D(1), D(0)))
             denominator == CScale(D(3), z2)
         IN  IF CAbsLtPow10(denominator, ThresholdExp) THEN 0
             ELSE LET w == CSub(z, CDiv(numerator, denominator))
                  IN  IF NearRoot(w, D(1), 0) THEN newton_code(1, i)
                      ELSE IF NearRoot(w, Fin(0 - 1, 2), 1) THEN newton_code(2, i)
                      ELSE IF NearRoot(w, Fin(0 - 1, 2), 0 - 1) THEN newton_code(3, i)
                      ELSE wasm_newton_loop(w, i + 1, maxIter)
    ELSE 0

newtonIterations(real, imag, maxIter) ==
    wasm_newton_loop(Cx(real, imag), 0, maxIter)

\* the switch of computeFractalBatch for one element
batch_element(fractalType, real, imag, cReal, cImag, maxIter) ==
    IF fractalType = 0 THEN mandelbrotIterations(real, imag, maxIter)
    ELSE IF fractalType = 1 THEN juliaIterations(real, imag, cReal, cImag, maxIter)
    ELSE IF fractalType = 2 THEN burningShipIterations(real, imag, maxIter)
    ELSE IF fractalType = 3 THEN newtonIterations(real, imag, maxIter)
    ELSE 0

\* computeFractalBatch: results[i] for every i in [0, count), arrays from index 1
computeFractalBatch(fractalType, realValues, imagValues, cReal, cImag, count, maxIter) ==
    [i \in 1 .. count |->
        batch_element(fractalType, realValues[i], imagValues[i], cReal, cImag, maxIter)]

(***************************************************************************)
(* Image entry point (wasm/src/fractals_wasm.cpp renderFractalImage)       *)
(***************************************************************************)
\* sqrt(x) for a finite 0 <= x <= 1, rounded down to a multiple of 1/(100 d)
DSqrt(x) ==
    LET v == x.n * x.d * 10000
        k == CHOOSE j \in 0 .. (100 * x.d) : j * j <= v /\ (j + 1) * (j + 1) > v
    IN  Fin(k, 100 * x.d)

\* hsvToRgb of fractals_wasm.cpp: Color(r, g, b) with the default a = 255
wasm_hsvToRgb(h, s, v) ==
    LET c == DMul(v, s)
        x == DMul(c, DSub(D(1), DAbs(DSub(DFmod(DDiv(h, D(60)), D(2)), D(1)))))
        m == DSub(v, c)
        rgb == IF DLe(D(0), h) /\ DLt(h, D(60)) THEN <<c, x, D(0)>>
               ELSE IF DLe(D(60), h) /\ DLt(h, D(120)) THEN <<x, c, D(0)>>
               ELSE IF DLe(D(120), h) /\ DLt(h, D(180)) THEN <<D(0), c, x>>
               ELSE IF DLe(D(180), h) /\ DLt(h, D(240)) THEN <<D(0), x, c>>
               ELSE IF DLe(D(240), h) /\ DLt(h, D(300)) THEN <<x, D(0), c>>
               ELSE <<c, D(0), x>>
    IN  <<Byte(Scale255(DAdd(rgb[1], m))), Byte(Scale255(DAdd(rgb[2], m))),
          Byte(Scale255(DAdd(rgb[3], m))), 255>>

\* 1.0 - (double)iter / maxIter
newton_intensity(iter, maxIter) ==
    DSub(D(1), DDiv(D(iter), D(maxIter)))

\* the root and the step the colour mapping reads from the value of
\* newtonIterations: >= 3000, >= 2000, >= 1000, or no root
newton_decode(iterations) ==
    IF iterations >= 3000 THEN <<3, iterations - 3000>>
    ELSE IF iterations >= 2000 THEN <<2, iterations - 2000>>
    ELSE IF iterations >= 1000 THEN <<1, iterations - 1000>>
    ELSE <<0, 0>>

\* the colour mapping of renderFractalImage: <<r, g, b, a>>
wasm_color(fractalType, iterations, maxIter) ==
    IF fractalType = 3
    THEN LET d == newton_decode(iterations)
             level == Byte(Scale255(newton_intensity(d[2], maxIter)))
         IN  IF d[1] = 3 THEN <<0, 0, level, 255>>
             ELSE IF d[1] = 2 THEN <<0, level, 0, 255>>
             ELSE IF d[1] = 1 THEN <<level, 0, 0, 255>>
             ELSE <<0, 0, 0, 255>>
    ELSE IF iterations = maxIter THEN <<0, 0, 0, 255>>
    ELSE LET t == DDiv(D(iterations), D(maxIter))
         IN  IF fractalType = 2
             THEN wasm_hsvToRgb(DMul(D(60), DSub(D(1), t)), D(1), DSqrt(t))
             ELSE wasm_hsvToRgb(DMul(D(240), DSub(D(1), t)), D(1), t)

\* a store of the three colour channels that leaves the alpha byte alone
StoreRGBA_rgb(data, index, color) ==
    [i \in DOMAIN data |->
        IF i \in index .. (index + 2) THEN color[i - index + 1] ELSE data[i]]

\* imageData[index .. index + 3] = color
StoreRGBA(data, index, color) ==
    [i \in DOMAIN data |->
        IF i \in index .. (index + 3) THEN color[i - index + 1] ELSE data[i]]

\* the loops of renderFractalImage from pixel (x, y) on; p holds the
\* arguments after zoom and maxIter have been adjusted, span is the local
\* scale = 4.0 / zoom
RECURSIVE wasm_render_loop(_, _, _, _)
wasm_render_loop(p, y, x, data) ==
    IF y < p.height
    THEN IF x < p.width
         THEN LET span == DDiv(D(4), p.zoom)
                  stepX == DDiv(span, D(p.width))
                  stepY == DDiv(span, D(p.height))
                  startX == DSub(p.centerX, DDiv(span, D(2)))
                  startY == DSub(p.centerY, DDiv(span, D(2)))
                  real == DAdd(startX, DMul(D(x), stepX))
                  imag == DAdd(startY, DMul(D(y), stepY))
                  iterations == batch_element(p.fractalType, real, imag,
                                              p.cReal, p.cImag, p.maxIter)
                  color == wasm_color(p.fractalType, iterations, p.maxIter)
                  index == (y * p.width + x) * 4
              IN  wasm_render_loop(p, y, x + 1, StoreRGBA(data, index, color))
         ELSE wasm_render_loop(p, y + 1, 0, data)
    ELSE data

\* renderFractalImage(fractalType, width, height, centerX, centerY, zoom,
\* cReal, cImag, maxIter, imageData): the bytes at imageData afterwards;
\* p.hasData is false for a null pointer
renderFractalImage(p, imageData) ==
    IF ~p.hasData \/ p.width <= 0 \/ p.height <= 0 \/ p.maxIter <= 0
    THEN imageData
    ELSE wasm_render_loop(
             [p EXCEPT !.zoom = IF DLe(@, D(0)) THEN D(1) ELSE @,
                       !.maxIter = IF @ > 10000 THEN 1000 ELSE @],
             0, 0, imageData)

(***************************************************************************)
(* Direct calls: one kernel, colour mapper or batch call per process       *)
(***************************************************************************)
MaxHalf == 6
MaxImagHalf == 2
MaxCap == 3
MaxColourCap == 4
MaxCount == 2
MaxSaveDim == 2
MaxImageLog == 1

\* plane samples on a grid of pitch 1/2: re in [-3, 3], im in [-1, 1]
Samples ==
    {Cx(Fin(a, 2), Fin(b, 2)) : a \in (0 - MaxHalf) .. MaxHalf,
                                b \in (0 - MaxImagHalf) .. MaxImagHalf}

\* the samples of a batch: those on the two axes
BatchSamples ==
    {z \in Samples : z[1].n = 0 \/ z[2].n = 0}

\* Newton samples the kernel leaves where they are, the root 1 and the
\* origin, and samples it moves
NewtonFixed ==
    {Cx(D(1), D(0)), Cx(D(0), D(0))}

NewtonMoving ==
    {Cx(D(0 - 1), D(0)), Cx(D(0 - 2), D(0)), Cx(D(0), D(1)), Cx(Fin(1, 2), D(0)),
     Cx(D(1), D(1)), Cx(D(0 - 1), D(1))}

Caps == 1 .. MaxCap

\* the Julia constants of the calls: c = -1 and c = 0
JuliaConstants ==
    {Cx(D(0 - 1), D(0)), Cx(D(0), D(0))}

\* a call that has not run yet
Pending(f, a) ==
    [fn |-> f, args |-> a, out |-> <<>>, done |-> FALSE]

KernelCalls(f) ==
    {Pending(f, <<z[1], z[2], m>>) : z \in Samples, m \in Caps}

JuliaCalls ==
    {Pending("julia_iterations", <<z[1], z[2], c[1], c[2], m>>) :
        z \in Samples, c \in JuliaConstants, m \in Caps}

NewtonCalls ==
    {Pending("newton_pixel", <<z[1], z[2], m>>) : z \in NewtonFixed, m \in Caps}
    \cup {Pending("newton_pixel", <<z[1], z[2], m>>) :
             z \in NewtonMoving, m \in 1 .. MaxObjIter}

\* a stored step count and the cap of the render that stored it
ColourCalls(f) ==
    UNION {{Pending(f, <<it, m>>) : it \in 0 .. m} : m \in 1 .. MaxColourCap}

\* a request cap above the serializer's fixed one (julia_test -i)
LargeCap ==
    JuliaColourCap + JuliaColourCap \div 2

JuliaColourCalls ==
    ColourCalls("julia_save_color")
    \cup {Pending("julia_save_color", <<it, JuliaColourCap>>) :
             it \in (0 .. MaxColourCap) \cup {JuliaColourCap}}
    \cup {Pending("julia_save_color", <<it, LargeCap>>) :
             it \in {JuliaColourCap - 1, JuliaColourCap + 1, LargeCap}}

RootCalls ==
    UNION {{Pending("rootToRGB", <<r, it, m>>) : r \in (0 - 1) .. 4, it \in 0 .. m} :
              m \in 1 .. MaxColourCap}

BatchArrays ==
    UNION {[1 .. n -> BatchSamples] : n \in 1 .. MaxCount}

\* fractalType 0..3 and one type the switch does not know; cReal + i cImag
\* matters to type 1 only
BatchTypes ==
    {<<0, Cx(D(0), D(0))>>, <<2, Cx(D(0), D(0))>>, <<4, Cx(D(0), D(0))>>}
    \cup {<<1, c>> : c \in JuliaConstants}

BatchCalls ==
    {Pending("computeFractalBatch", <<t[1], a, t[2], m>>) :
        t \in BatchTypes, a \in BatchArrays, m \in Caps}
    \cup {Pending("computeFractalBatch", <<3, a, Cx(D(0), D(0)), m>>) :
             a \in UNION {[1 .. n -> NewtonFixed] : n \in 1 .. MaxCount}, m \in Caps}

\* images handed to a serializer: extents 1..MaxSaveDim and, per pixel, one
\* of two values of the family (bytes of a black or white pixel, step counts)
Images(w, h, lo, hi, channels) ==
    {[i \in 0 .. (w * h * channels - 1) |-> IF pick[i \div channels] THEN hi ELSE lo] :
        pick \in [0 .. (w * h - 1) -> BOOLEAN]}

SaveCalls(fn, f, lo, hi, channels) ==
    UNION {{Pending(fn, <<f, [width |-> w, height |-> h, max_iter |-> MaxCap], data>>) :
               data \in Images(w, h, lo, hi, channels)} :
           w \in 1 .. MaxSaveDim, h \in 1 .. MaxSaveDim}

\* the plane origin
Origin ==
    Cx(D(0), D(0))

\* a byte of the caller's buffer that no call has stored to
Untouched ==
    0 - 1

\* the caller's buffer for a width x height RGBA image, one pixel longer
\* than the image; <<>> stands for a null pointer
ImageBuffer(w, h, has) ==
    IF has THEN [i \in 0 .. (Max(w, 0) * Max(h, 0) * 4 + 3) |-> Untouched] ELSE <<>>

ImageArgs(t, w, h, centre, z, m, has) ==
    [fractalType |-> t, width |-> w, height |-> h, centerX |-> centre[1],
     centerY |-> centre[2], zoom |-> z, cReal |-> D(0 - 1), cImag |-> D(0),
     maxIter |-> m, hasData |-> has]

\* image extents: -1, 0 and the powers of two up to 2^MaxImageLog
ImageExtents ==
    {0 - 1, 0} \cup {2 ^ k : k \in 0 .. MaxImageLog}

\* calls of renderFractalImage: caps from 0, zoom 0 and 1, with and without
\* a buffer, for the escape-time types and a type the switch does not know;
\* for Newton, one-pixel images whose sample is the root 1 or the origin
ImageCalls ==
    {Pending("renderFractalImage",
             <<ImageArgs(t, w, h, Origin, D(z), m, has), ImageBuffer(w, h, has)>>) :
        t \in {0, 1, 2, 4}, w \in ImageExtents, h \in ImageExtents,
        z \in {0, 1}, m \in 0 .. MaxCap, has \in BOOLEAN}
    \cup {Pending("renderFractalImage",
                  <<ImageArgs(3, 1, 1, centre, D(1), m, TRUE), ImageBuffer(1, 1, TRUE)>>) :
             centre \in {Cx(D(3), D(2)), Cx(D(2), D(2))}, m \in Caps}

\* the variables of the render programs
render_vars ==
    <<fam, req, traps, pc, pass, kind, nth, icv, buf, writes, oob, py, px, wk,
      next, progress_counter, lock, file, prev>>

\* the caps renderFractalImage keeps as they are, at the ends of the range
\* and around the step of the outcome encoding
OutcomeCaps ==
    Caps \cup {256, 1000, 1001, 2000, 10000}

\* the loop indices at which the kernel is taken to return under the cap m
OutcomeSteps(m) ==
    {i \in {0, 1, 2, 255, 586, 999, 1000, 1999, m - 1} : i < m}

\* a Newton pixel of renderFractalImage whose kernel met root `root' at
\* loop index i under the cap m: <<root, i, m>>
NewtonOutcomeCalls ==
    UNION {{Pending("newton_outcome", <<root, i, m>>) :
                root \in 1 .. 3, i \in OutcomeSteps(m)} : m \in OutcomeCaps}

\* the call returns: its result is recorded
Returns(v) ==
    /\ ~call.done
    /\ call' = [call EXCEPT !.out = v, !.done = TRUE]
    /\ UNCHANGED render_vars

CallMandelbrotIterations ==
    /\ call.fn = "mandelbrot_iterations"
    /\ Returns(mandelbrot_iterations(call.args[1], call.args[2], call.args[3]))

CallMandelbrotIterationsOmp ==
    /\ call.fn = "mandelbrot_iterations_omp"
    /\ Returns(mandelbrot_iterations_omp(call.args[1], call.args[2], call.args[3]))

CallJuliaIterations ==
    /\ call.fn = "julia_iterations"
    /\ Returns(julia_iterations(call.args[1], call.args[2], call.args[3],
                                call.args[4], call.args[5]))

CallComputeBurningShip ==
    /\ call.fn = "computeBurningShip"
    /\ Returns(computeBurningShip(call.args[1], call.args[2], call.args[3]))

\* the body of NewtonFractalCPU::render for one sample
CallNewtonPixel ==
    /\ call.fn = "newton_pixel"
    /\ Returns(computeNewtonPixel(call.args[1], call.args[2], call.args[3]))

\* MandelbrotCPU::iterations_to_color(iterations, params.max_iter)
CallIterationsToColor ==
    /\ call.fn = "iterations_to_color"
    /\ Returns(iterations_to_color(call.args[1], call.args[2]))

\* BurningShipCPU::saveAsPPM for one cell: iterationsToRGB(fractal_data_[y][x])
CallIterationsToRGB ==
    /\ call.fn = "iterationsToRGB"
    /\ Returns(iterationsToRGB(call.args[1], call.args[2]))

\* JuliaRenderer::save_ppm for one element: the request's cap, args[2], is
\* not passed on
CallJuliaSaveColor ==
    /\ call.fn = "julia_save_color"
    /\ Returns(julia_save_color(call.args[1]))

\* MandelbrotCPU::save_ppm(filename, image_data, width, height), stream open
CallSavePpm ==
    /\ call.fn = "save_ppm"
    /\ Returns(serialize(call.args[1], call.args[2], call.args[3]))

\* JuliaRenderer::save_ppm(data, width, height, filename), stream open
CallJuliaSavePpm ==
    /\ call.fn = "JuliaRenderer::save_ppm"
    /\ Returns(serialize(call.args[1], call.args[2], call.args[3]))

\* BurningShipCPU::saveAsPPM(filename) on an object holding fractal_data_
CallSaveAsPPM ==
    /\ call.fn = "saveAsPPM"
    /\ Returns(serialize(call.args[1], call.args[2], call.args[3]))

\* renderFractalImage(..., imageData)
CallRenderFractalImage ==
    /\ call.fn = "renderFractalImage"
    /\ Returns(renderFractalImage(call.args[1], call.args[2]))

\* one Newton pixel of renderFractalImage: the value newtonIterations
\* returns for the root and the loop index, and the colour the pixel gets
CallNewtonOutcome ==
    /\ call.fn = "newton_outcome"
    /\ LET iterations == newton_code(call.args[1], call.args[2])
       IN  Returns(<<iterations, wasm_color(3, iterations, call.args[3])>>)

\* NewtonFractalCPU::saveAsPPM for one cell
CallRootToRGB ==
    /\ call.fn = "rootToRGB"
    /\ Returns(rootToRGB(call.args[1], call.args[2], call.args[3]))

CallComputeFractalBatch ==
    /\ call.fn = "computeFractalBatch"
    /\ LET a == call.args[2]
           count == Len(a)
       IN  Returns(computeFractalBatch(call.args[1], [i \in 1 .. count |-> a[i][1]],
                                       [i \in 1 .. count |-> a[i][2]],
                                       call.args[3][1], call.args[3][2], count,
                                       call.args[4]))

\* a process that makes one direct call; no render runs in it
KernelInit ==
    /\ \/ call \in KernelCalls("mandelbrot_iterations")
       \/ call \in KernelCalls("mandelbrot_iterations_omp")
       \/ call \in JuliaCalls
       \/ call \in KernelCalls("computeBurningShip")
       \/ call \in NewtonCalls
       \/ call \in ColourCalls("iterations_to_color")
       \/ call \in ColourCalls("iterationsToRGB")
       \/ call \in JuliaColourCalls
       \/ call \in RootCalls
       \/ call \in BatchCalls
       \/ call \in SaveCalls("save_ppm", "mandel", 0, 255, 3)
       \/ call \in SaveCalls("JuliaRenderer::save_ppm", "julia", 1, JuliaColourCap, 1)
       \/ call \in SaveCalls("saveAsPPM", "ship", 1, MaxCap, 1)
       \/ call \in ImageCalls
       \/ call \in NewtonOutcomeCalls
    /\ fam = "none"
    /\ req = <<>>
    /\ traps = TRUE
    /\ pc = "direct"
    /\ pass = 0
    /\ kind = "none"
    /\ nth = 1
    /\ icv = HardwareThreads
    /\ buf = <<>>
    /\ writes = <<>>
    /\ oob = FALSE
    /\ py = 0
    /\ px = 0
    /\ wk = <<>>
    /\ next = 0
    /\ progress_counter = 0
    /\ lock = 0
    /\ file = NoFile
    /\ prev = NoPrev

KernelNext ==
    \/ CallMandelbrotIterations
    \/ CallMandelbrotIterationsOmp
    \/ CallJuliaIterations
    \/ CallComputeBurningShip
    \/ CallNewtonPixel
    \/ CallIterationsToColor
    \/ CallIterationsToRGB
    \/ CallJuliaSaveColor
    \/ CallRootToRGB
    \/ CallSavePpm
    \/ CallJuliaSavePpm
    \/ CallSaveAsPPM
    \/ CallRenderFractalImage
    \/ CallNewtonOutcome
    \/ CallComputeFractalBatch

KernelSpec ==
    KernelInit /\ [][KernelNext]_vars

(***************************************************************************)
(* Properties                                                              *)
(***************************************************************************)
\* a request the specification calls valid: positive extents, a positive
\* iteration cap, a viewport with x_min < x_max and y_min < y_max
ValidRequest ==
    /\ req.width >= 1
    /\ req.height >= 1
    /\ req.max_iter >= 1
    /\ fam \notin Objects => DLt(req.x_min, req.x_max) /\ DLt(req.y_min, req.y_max)

\* C1: for a valid request, a render pass that has ended, by returning or
\* otherwise, has written every slot of [0, W*H*channels) exactly once and
\* has written nothing outside it.
C1_EverySlotOnce ==
    (ValidRequest /\ fam \in {"mandel", "julia"} /\ pc \in {"rendered", "crashed"}) =>
        /\ ~oob
        /\ DOMAIN writes = 0 .. (req.width * req.height * Channels - 1)
        /\ \A i \in DOMAIN writes : writes[i] = 1

\* C2: in a parallel render no slot is written by two workers: no slot is
\* stored to twice in a pass, and the workers hold different loop iterations.
C2_DisjointWrites ==
    /\ \A i \in DOMAIN writes : writes[i] <= 1
    /\ \A t1, t2 \in DOMAIN wk :
          (t1 # t2 /\ wk[t1].st # "idle" /\ wk[t2].st # "idle") => wk[t1].it # wk[t2].it

\* two workers of one team, each in the middle of its own row
C2_Witness ==
    /\ pc = "render"
    /\ kind = "omp"
    /\ \E t1, t2 \in DOMAIN wk :
          /\ t1 # t2
          /\ wk[t1].st = "row" /\ wk[t1].px >= 1
          /\ wk[t2].st = "row" /\ wk[t2].px >= 1

\* C3: for a valid request the buffer a parallel render returns equals, slot
\* for slot, the buffer the single-threaded render of the same request returned.
C3_ParallelEqualsSequential ==
    (/\ ValidRequest
     /\ fam \in {"mandel", "julia"}
     /\ pc = "rendered"
     /\ prev.kind \in {"cpu", "omp"}
     /\ prev.kind # kind) => buf = prev.buf

\* C4: the serializer, called by a main, by a Julia render or by renderToFile,
\* is only ever started after every row of the current pass has been written.
C4_SaveAfterJoin ==
    (file.started /\ file.via \in {"main", "render", "renderToFile"}) => file.complete

\* a main has saved the image a team of two or more threads rendered
C4_Witness ==
    /\ ValidRequest
    /\ file.started
    /\ file.via = "main"
    /\ kind = "omp"
    /\ nth >= 2
    /\ req.height >= 2
    /\ file.given = buf

\* a step of the parallel loop that a fair scheduler can take: a worker has
\* an iteration to take, a pixel to render, the critical section to enter or
\* to leave, or the team can pass the barrier
TeamCanStep ==
    \/ JoinReady
    \/ \E t \in DOMAIN wk :
          \/ wk[t].st = "idle" /\ next < LoopCount
          \/ wk[t].st = "row" /\ (wk[t].px < req.width \/ CriticalFree)
          \/ wk[t].st \in {"crit", "pixel"}

\* C5: a parallel render of a valid request ends only by returning: until it
\* has returned with all its rows complete it has not stopped, and a fair
\* scheduler has a step of it to take.
C5_RenderCompletes ==
    (ValidRequest /\ kind = "omp") =>
        /\ pc \in {"render", "rendered", "ready"}
        /\ pc = "render" => TeamCanStep
        /\ pc = "rendered" => FullyPopulated

\* C6: two passes of the same renderer over the same valid request return
\* identical buffers, whatever the team sizes and the interleavings.
C6_Deterministic ==
    (/\ ValidRequest
     /\ pc = "rendered"
     /\ prev.kind # "none"
     /\ (fam \in Objects \/ prev.kind = kind)) => buf = prev.buf

\* a second parallel pass has ended, with a team of another size than the first
C6_Witness ==
    /\ ValidRequest
    /\ pc = "rendered"
    /\ kind = "omp"
    /\ prev.kind = "omp"
    /\ prev.nth # nth
    /\ req.width >= 2
    /\ req.height >= 2

\* the value the renderer in use computes for slot i from (px, py, request)
PixelFunction(i) ==
    IF fam = "mandel"
    THEN LET x == (i \div 3) % req.width
             y == (i \div 3) \div req.width
             c == IF kind = "cpu" THEN cpu_color(req, x, y) ELSE omp_color(req, x, y)
         IN  c[(i % 3) + 1]
    ELSE IF fam = "julia"
    THEN julia_value(req, i % req.width, i \div req.width)
    ELSE obj_value(fam, req, i % req.width, i \div req.width)

\* C7: every store to a slot stores the value that (px, py, request)
\* determine, whichever worker renders the row and whatever else has been
\* rendered, so row bands rendered independently concatenate to the full render.
C7_PartitionIndependent ==
    [][\A i \in DOMAIN writes :
          (i \in DOMAIN writes' /\ writes'[i] > writes[i]) => buf'[i] = PixelFunction(i)]_vars

\* one worker has rendered the rows [0, H/2) and another the rows [H/2, H),
\* and the image is complete
C7_Witness ==
    /\ ValidRequest
    /\ pc = "render"
    /\ fam = "mandel"
    /\ kind = "omp"
    /\ FullyPopulated
    /\ \E t1, t2 \in DOMAIN wk :
          /\ wk[t1].st = "row" /\ wk[t1].it < req.height \div 2
          /\ wk[t2].st = "row" /\ wk[t2].it >= req.height \div 2

\* the range the specification gives a stored pixel of family f
InRange(f, p, v) ==
    IF f = "newton"
    THEN v[1] \in 0 .. 3 /\ v[2] \in 0 .. p.max_iter
    ELSE IF f \in {"julia", "ship"}
    THEN v \in 0 .. p.max_iter
    ELSE v \in 0 .. 255

\* C8: whenever a buffer is serialized, after a completed render or not, every
\* stored step count is in [0, max_iterations] and every Newton root id is in
\* {0, 1, 2, 3}.
C8_RangeWhenSerialized ==
    (ValidRequest /\ file.started) =>
        \A i \in DOMAIN file.given : InRange(fam, req, file.given[i])

\* C9: a request that is not valid is rejected before a buffer is allocated,
\* a pixel evaluated or a file written, at every render entry point.
C9_FailFast ==
    ~ValidRequest =>
        /\ pc \notin {"render", "rendered"}
        /\ pass = 0
        /\ buf = <<>>
        /\ ~file.started

\* the coordinates the renderer in use samples for column x and row y
SampleReal(x) ==
    IF fam = "mandel"
    THEN (IF kind = "cpu" THEN cpu_real(req, x) ELSE omp_real(req, x))
    ELSE IF fam = "julia" THEN julia_x(req, x) ELSE obj_cx(req, x)

SampleImag(y) ==
    IF fam = "mandel"
    THEN (IF kind = "cpu" THEN cpu_imag(req, y) ELSE omp_imag(req, y))
    ELSE IF fam = "julia" THEN julia_y(req, y) ELSE obj_cy(req, y)

\* the midpoint of the viewport
MidReal ==
    IF fam \in Objects THEN req.center_x
    ELSE DDiv(DAdd(req.x_min, req.x_max), D(2))

MidImag ==
    IF fam \in Objects THEN req.center_y
    ELSE DDiv(DAdd(req.y_min, req.y_max), D(2))

\* C10: a valid request with W = 1 or H = 1 is rendered without a division
\* by zero, and the single-pixel axis samples the midpoint of the viewport.
C10_SinglePixelAxis ==
    (ValidRequest /\ pc = "rendered") =>
        /\ req.width = 1 => SampleReal(0) = MidReal
        /\ req.height = 1 => SampleImag(0) = MidImag

(***************************************************************************)
(* Properties of the direct calls                                          *)
(***************************************************************************)
\* the call of f has returned
Returned(f) ==
    call.fn = f /\ call.done

\* C11: for the escape-time kinds, a stored step count equal to the request's
\* max_iterations is written to the output as RGB (0, 0, 0): by
\* iterations_to_color (Mandelbrot), iterationsToRGB (Burning Ship) and
\* JuliaRenderer::save_ppm (Julia).
C11_CapIsBlack ==
    ((Returned("iterations_to_color") \/ Returned("iterationsToRGB")
         \/ Returned("julia_save_color"))
     /\ call.args[1] = call.args[2]) => call.out = <<0, 0, 0>>

\* a base colour component c scaled by max(0.3, (m - it) / m), as a byte
ScaledBase(c, it, m) ==
    IF 10 * (m - it) > 3 * m THEN (c * (m - it)) \div m ELSE (c * 3) \div 10

\* C12: rootToRGB maps a root_id outside {1, 2, 3} to (0, 0, 0); for a
\* root_id in {1, 2, 3} and steps in [0, max_iterations] it gives the root's
\* base colour scaled by max(0.3, (max_iterations - steps) / max_iterations),
\* which is never (0, 0, 0).
C12_RootColour ==
    Returned("rootToRGB") =>
        LET root == call.args[1]
            it == call.args[2]
            m == call.args[3]
            b == base_color(root)
        IN  /\ root \notin {1, 2, 3} => call.out = <<0, 0, 0>>
            /\ root \in {1, 2, 3} =>
                  /\ call.out = <<ScaledBase(b[1], it, m), ScaledBase(b[2], it, m),
                                  ScaledBase(b[3], it, m)>>
                  /\ call.out # <<0, 0, 0>>

\* a converged pixel that took max_iterations steps has been coloured
C12_Witness ==
    /\ Returned("rootToRGB")
    /\ call.args[1] \in {1, 2, 3}
    /\ call.args[2] = call.args[3]
    /\ call.out # <<0, 0, 0>>

\* the escape-time kernels of the native renderers
EscapeKernels ==
    {"mandelbrot_iterations", "mandelbrot_iterations_omp", "julia_iterations",
     "computeBurningShip"}

\* an escape-time kernel has returned
KernelReturned ==
    call.fn \in EscapeKernels /\ call.done

\* re * re + im * im > 4 for the plane sample of the call
SampleOutside ==
    DGt(DAdd(DMul(call.args[1], call.args[1]), DMul(call.args[2], call.args[2])), D(4))

OrbitStep(ship, z, c) ==
    LET w == IF ship THEN Cx(DAbs(z[1]), DAbs(z[2])) ELSE z
    IN  CAdd(CMul(w, w), c)

\* the least index k in [0, m] with |z_k|^2 > 4 along the orbit from z_k = z,
\* or m if there is none below m
RECURSIVE FirstEscape(_, _, _, _, _)
FirstEscape(ship, z, c, k, m) ==
    IF k >= m THEN m
    ELSE IF DGt(CAbsSq(z), D(4)) THEN k
    ELSE FirstEscape(ship, OrbitStep(ship, z, c), c, k + 1, m)

\* C14: computeBurningShip stops exactly when |z|^2 > 4: its steps is the
\* first index at which the orbit exceeds 4, so an orbit that reaches
\* |z|^2 == 4 without exceeding it, as that of c = (-2, 0), yields
\* max_iterations.
C14_ShipStopIsStrict ==
    Returned("computeBurningShip") =>
        call.out = FirstEscape(TRUE, Cx(D(0), D(0)), Cx(call.args[1], call.args[2]),
                               0, call.args[3])

C16_OriginNeverEscapes ==
    /\ ((Returned("mandelbrot_iterations") \/ Returned("mandelbrot_iterations_omp"))
        /\ Cx(call.args[1], call.args[2]) = Origin) => call.out = call.args[3]
    /\ (Returned("computeFractalBatch") /\ call.args[1] = 0) =>
          \A i \in DOMAIN call.args[2] :
              call.args[2][i] = Origin => call.out[i] = call.args[4]

\* a Mandelbrot batch whose second sample is the origin has returned,
\* with a cap of two or more
C16_Witness ==
    /\ Returned("computeFractalBatch")
    /\ call.args[1] = 0
    /\ call.args[4] >= 2
    /\ Len(call.args[2]) = 2
    /\ call.args[2][2] = Origin
    /\ call.args[2][1] # Origin
    /\ call.out[2] = call.args[4]

\* the sample of the returned Newton call
NewtonSample ==
    Cx(call.args[1], call.args[2])

\* C17: the Newton kernel run at the sample (1, 0), a root of z^3 - 1, stores
\* root_id 1 with 0 steps.
C17_RootSampleConvergesAtOnce ==
    (Returned("newton_pixel") /\ NewtonSample = Cx(D(1), D(0))) =>
        call.out = <<1, 0>>

\* the kernel has returned for the sample (1, 0) under the largest cap
C17_Witness ==
    /\ Returned("newton_pixel")
    /\ NewtonSample = Cx(D(1), D(0))
    /\ call.args[3] = MaxCap
    /\ call.out[1] = 1

\* |z^2| < 1e-10 at the sample of the returned Newton call
NewtonSampleUnderflows ==
    CAbsLtPow10(CMul(NewtonSample, NewtonSample), UnderflowExp)

\* C18: at a sample with |z^2| < 1e-10, such as the origin, the Newton step
\* returns the sample without dividing, and the kernel stores root_id 0 with
\* steps <= max_iterations; the pixel is rendered (0, 0, 0).
C18_UnresolvedAtUnderflow ==
    (Returned("newton_pixel") /\ NewtonSampleUnderflows) =>
        /\ newtonIteration(NewtonSample) = NewtonSample
        /\ call.out[1] = 0
        /\ call.out[2] <= call.args[3]
        /\ rootToRGB(call.out[1], call.out[2], call.args[3]) = <<0, 0, 0>>

\* the kernel has returned Unresolved for the origin under a cap of two or more
C18_Witness ==
    /\ Returned("newton_pixel")
    /\ NewtonSample = Origin
    /\ NewtonSampleUnderflows
    /\ call.args[3] >= 2
    /\ call.out[1] = 0

(***************************************************************************)
(* Properties of the viewport mapping                                      *)
(***************************************************************************)
\* the bounds of the viewport of the request
BoundsX ==
    IF fam \in Objects THEN <<min_x(req), max_x(req)>> ELSE <<req.x_min, req.x_max>>

BoundsY ==
    IF fam \in Objects THEN <<min_y(req), max_y(req)>> ELSE <<req.y_min, req.y_max>>

\* lo + (hi - lo) * p / (n - 1)
Interpolate(b, p, n) ==
    DAdd(b[1], DDiv(DMul(DSub(b[2], b[1]), D(p)), D(n - 1)))

\* C19: in every renderer the real coordinate of column px is
\* x_min + (x_max - x_min) * px / (W - 1), so that column 0 samples x_min and
\* column W - 1 samples x_max, and symmetrically for the imaginary coordinate
\* of row py.
C19_ViewportLinear ==
    (ValidRequest /\ pc = "rendered") =>
        /\ req.width >= 2 =>
              /\ SampleReal(0) = BoundsX[1]
              /\ SampleReal(req.width - 1) = BoundsX[2]
              /\ \A x \in 0 .. (req.width - 1) :
                     SampleReal(x) = Interpolate(BoundsX, x, req.width)
        /\ req.height >= 2 =>
              /\ SampleImag(0) = BoundsY[1]
              /\ SampleImag(req.height - 1) = BoundsY[2]
              /\ \A y \in 0 .. (req.height - 1) :
                     SampleImag(y) = Interpolate(BoundsY, y, req.height)

(***************************************************************************)
(* Properties of the batch entry point                                     *)
(***************************************************************************)
\* the native kernel of an escape-time fractalType, at sample z with the
\* Julia constant c
native_kernel(fractalType, z, c, maxIter) ==
    IF fractalType = 0 THEN mandelbrot_iterations(z[1], z[2], maxIter)
    ELSE IF fractalType = 1 THEN julia_iterations(z[1], z[2], c[1], c[2], maxIter)
    ELSE computeBurningShip(z[1], z[2], maxIter)

\* C20: for fractalType 0 (Mandelbrot), 1 (Julia) and 2 (Burning Ship), every
\* sample i and every maxIter > 0, results[i] of computeFractalBatch equals
\* the step count of the native kernel at the same sample and cap.
C20_BatchIsNativeKernel ==
    (Returned("computeFractalBatch") /\ call.args[1] \in {0, 1, 2}) =>
        \A i \in DOMAIN call.args[2] :
            call.out[i] = native_kernel(call.args[1], call.args[2][i],
                                        call.args[3], call.args[4])

(***************************************************************************)
(* Properties of the serializers                                           *)
(***************************************************************************)
\* C21: for every max_iterations > 0 and every stored iteration count in
\* [0, max_iterations], each of r, g, b that JuliaRenderer::save_ppm emits is
\* an integer in [0, 255].
C21_JuliaChannelsAreBytes ==
    (Returned("julia_save_color") /\ call.args[1] \in 0 .. call.args[2]) =>
        \A k \in 1 .. 3 : call.out[k] \in 0 .. 255

\* the serializers called directly
Serializers ==
    {"save_ppm", "JuliaRenderer::save_ppm", "saveAsPPM"}

\* the colour of slot k of the buffer the serializer was handed
SlotColour(k) ==
    IF call.args[1] = "mandel"
    THEN <<call.args[3][3 * k], call.args[3][3 * k + 1], call.args[3][3 * k + 2]>>
    ELSE pixel_color(call.args[1], call.args[2], call.args[3][k])

\* C22: after the header, the serializer emits the pixels in row-major order,
\* row 0 first and px increasing within a row, each pixel exactly once: the
\* k-th pixel emitted is the colour of buffer slot k = py * W + px.
C22_RowMajorEmission ==
    (call.fn \in Serializers /\ call.done) =>
        LET w == call.args[2].width
            h == call.args[2].height
        IN  /\ Len(call.out) = w * h
            /\ \A y \in 0 .. (h - 1) : \A x \in 0 .. (w - 1) :
                   call.out[y * w + x + 1] = SlotColour(y * w + x)

\* a text serializer has written an image of two rows and two columns or
\* more whose second pixel differs from the first pixel of its second row
C22_Witness ==
    /\ Returned("JuliaRenderer::save_ppm")
    /\ call.args[2].width >= 2 /\ call.args[2].height >= 2
    /\ Len(call.out) = call.args[2].width * call.args[2].height
    /\ call.out[2] # call.out[call.args[2].width + 1]

(***************************************************************************)
(* Properties of the progress report and of the team                       *)
(***************************************************************************)
\* the workers inside the critical section, and the rows whose worker has
\* left it
InCritical ==
    {t \in DOMAIN wk : wk[t].st = "crit"}

RowsReported ==
    next - Cardinality({t \in DOMAIN wk : wk[t].st # "idle"})

\* C23: in render_mandelbrot_omp at most one worker is inside the critical
\* section at a time, no increment of progress_counter is lost in any
\* interleaving: the counter equals the number of rows completed and
\* reported so far, and it equals H when all workers have joined.
C23_ProgressCounterExclusive ==
    (ValidRequest /\ fam = "mandel" /\ kind = "omp" /\ pc \in {"render", "rendered"}) =>
        /\ Cardinality(InCritical) <= 1
        /\ progress_counter = RowsReported
        /\ pc = "rendered" => progress_counter = req.height

\* one worker is inside the critical section while another, its row
\* complete, waits to enter, and rows have been reported already
C23_Witness ==
    /\ ValidRequest /\ fam = "mandel" /\ kind = "omp" /\ pc = "render"
    /\ progress_counter >= 1
    /\ \E t1, t2 \in DOMAIN wk :
          /\ wk[t1].st = "crit"
          /\ wk[t2].st = "row" /\ wk[t2].px >= req.width

\* the states in which a run has ended in an error: main returned 1, an
\* exception left the program, or a signal killed it
ErrorStates ==
    {"rejected", "aborted", "crashed"}

\* C24: when the serializer cannot open its destination, no header or pixel
\* data is written, and the failure reaches the caller: the run is in an
\* error state, not in the state that follows a completed save.
C24_IoFailureSurfaced ==
    (file.started /\ ~file.open) =>
        /\ file.emitted = <<>>
        /\ pc \in ErrorStates

\* C25: for every valid request with H >= 1, including 1 <= H < 10, the
\* progress reports of render_mandelbrot_cpu (py % (H / 10)) and of
\* render_mandelbrot_omp (progress_counter % progress_step) evaluate no
\* modulo by zero, and the render is not killed.
C25_ProgressModuloDefined ==
    (ValidRequest /\ fam = "mandel") =>
        /\ (pc = "render" /\ kind = "cpu" /\ py < req.height /\ px >= req.width) =>
               progress_divisor(req) # 0
        /\ (pc = "render" /\ kind = "omp" /\ InCritical # {}) => progress_step(req) # 0
        /\ pc # "crashed"

\* the team size the documentation of render_mandelbrot_omp promises for
\* the argument num_threads: 0 and below select min(hardware threads, 16)
PromisedThreads(num_threads) ==
    IF num_threads > 0 THEN num_threads ELSE Min(HardwareThreads, 16)

\* C26: render_mandelbrot_omp with num_threads > 0 uses exactly num_threads
\* threads, and with num_threads <= 0 it uses min(hardware thread count, 16),
\* whatever calls the process made before.
C26_ThreadCountSelection ==
    [][\A n \in 0 .. MaxThreads : CallRenderOmp(n) => nth' = PromisedThreads(n)]_vars

(***************************************************************************)
(* Properties of the renderer objects                                      *)
(***************************************************************************)
\* what a fresh renderer of the same extents and cap stores after one render
FreshRender ==
    [i \in 0 .. (req.width * req.height - 1) |->
        obj_value(fam, req, i % req.width, i \div req.width)]

\* C27: after any sequence of render / renderToFile calls on one
\* BurningShipCPU or NewtonFractalCPU object, the stored pixel data equals
\* what a fresh renderer of the same width, height and max_iterations stores
\* after the last call alone, every cell having been stored by that call,
\* and width_, height_ and max_iterations_ never change.
C27_RendererReuse ==
    /\ []((fam \in Objects /\ pc = "rendered") =>
             /\ buf = FreshRender
             /\ \A i \in DOMAIN buf : writes[i] = 1)
    /\ [][(fam \in Objects) =>
             (req'.width = req.width /\ req'.height = req.height
                 /\ req'.max_iter = req.max_iter)]_vars

\* a second call on the same object has ended, of the other entry point
\* than the first, on an image of two rows and two columns or more
C27_Witness ==
    /\ fam \in Objects /\ ValidRequest
    /\ pc = "rendered"
    /\ pass >= 1
    /\ prev.kind \in {"render", "renderToFile"}
    /\ prev.kind # kind
    /\ req.width >= 2 /\ req.height >= 2
    /\ buf = prev.buf

(***************************************************************************)
(* Properties of the image entry point                                     *)
(***************************************************************************)
\* the arguments renderFractalImage rejects
ImageRejected(p) ==
    ~p.hasData \/ p.width <= 0 \/ p.height <= 0 \/ p.maxIter <= 0

\* C28: when imageData is null or width <= 0 or height <= 0 or maxIter <= 0,
\* renderFractalImage returns without writing any byte of the buffer;
\* otherwise it writes exactly the width * height * 4 bytes at the indices
\* (y * width + x) * 4 .. + 3, with alpha 255 for every pixel.
C28_ImageWritesExactly ==
    Returned("renderFractalImage") =>
        LET p == call.args[1]
            before == call.args[2]
        IN  /\ DOMAIN call.out = DOMAIN before
            /\ ImageRejected(p) => call.out = before
            /\ ~ImageRejected(p) =>
                  \A i \in DOMAIN before :
                      IF i < p.width * p.height * 4
                      THEN /\ call.out[i] \in 0 .. 255
                           /\ i % 4 = 3 => call.out[i] = 255
                      ELSE call.out[i] = before[i]

\* an image of two rows and two columns or more has been written, one of
\* its pixels with a colour that is not black, and the bytes behind the
\* image are untouched
C28_Witness ==
    /\ Returned("renderFractalImage")
    /\ ~ImageRejected(call.args[1])
    /\ call.args[1].width >= 2 /\ call.args[1].height >= 2
    /\ LET n == call.args[1].width * call.args[1].height * 4
       IN  /\ call.out[n - 1] = 255
           /\ \E i \in 0 .. (n - 1) : i % 4 # 3 /\ call.out[i] > 0
           /\ call.out[n] = Untouched

C30_ConvergedNeverBlack ==
    Returned("newton_outcome") =>
        <<call.out[2][1], call.out[2][2], call.out[2][3]>> # <<0, 0, 0>>

====
